---------------------------- MODULE Spec2Model ----------------------------
(***************************************************************************)
(* A model of the Jack syntax analyzer: the tokenizer (JackTokenizer), its *)
(* regular expressions (parser/utils/patterns.py) and the recursive        *)
(* descent CompilationEngine.                                              *)
(*                                                                         *)
(* Text is a sequence of one-character strings.  A lexeme is such a        *)
(* sequence too.  The engine and the tokenizer are modelled as operators   *)
(* over one record `s` that holds the fields of both objects plus `exc`,   *)
(* the exception in flight (kind "none" when there is none).               *)
(***************************************************************************)
EXTENDS Integers, Sequences, FiniteSets, TLC

VARIABLES
  text,            \* the content of the input file (history: never changes)
  fd,              \* JackTokenizer.fd: [unread, closed]
  token,           \* JackTokenizer.token
  _next_token,     \* JackTokenizer._next_token
  token_queue,     \* JackTokenizer.token_queue: [chained, items]
  more_tokens,     \* JackTokenizer.more_tokens
  line_number,     \* JackTokenizer.line_number
  _indent,         \* CompilationEngine._indent
  _body,           \* CompilationEngine._body
  _safe_to_step,   \* CompilationEngine._safe_to_step
  _outfile,        \* the lines written to CompilationEngine._outfile
  exc,             \* the exception that left the last call
  result,          \* the value the last call returned (0 when it returned none)
  pc,              \* "ready" before the call under study, "done" after it
  unit,            \* history: how the input was put together
  delivered,       \* history: the tokens made current by advance(), in order
  files,           \* analyze: the input files get_files has yet to yield
  stdout,          \* analyze: what has been printed
  token_cache,     \* JackTokenizer.token_cache
  classified       \* history: how often the patterns classified each lexeme

vars == << text, fd, token, _next_token, token_queue, more_tokens, line_number,
           _indent, _body, _safe_to_step, _outfile, exc, result, pc, unit,
           delivered, files, stdout, token_cache, classified >>

-----------------------------------------------------------------------------
(* Generic helpers on sequences and sets.                                  *)

Min(S) == CHOOSE x \in S : \A y \in S : x <= y

Max(S) == CHOOSE x \in S : \A y \in S : x >= y

StartsAt(s, i, w) ==
  /\ i >= 1
  /\ i + Len(w) - 1 <= Len(s)
  /\ SubSeq(s, i, i + Len(w) - 1) = w

RECURSIVE Flatten(_)
Flatten(ss) == IF ss = <<>> THEN <<>> ELSE Head(ss) \o Flatten(Tail(ss))

\* The last index of the run of characters of class C that starts at i
\* (i - 1 when s[i] is not in C).
RunEnd(s, i, C) ==
  LET stops == { j \in i..Len(s) : s[j] \notin C }
  IN  IF stops = {} THEN Len(s) ELSE Min(stops) - 1

-----------------------------------------------------------------------------
(* Character classes of the regular expressions.                           *)

Digits == {"0", "1", "2", "3", "4", "5", "6", "7", "8", "9"}

Upper == {"A", "B", "C", "D", "E", "F", "G", "H", "I", "J", "K", "L", "M",
          "N", "O", "P", "Q", "R", "S", "T", "U", "V", "W", "X", "Y", "Z"}

Lower == {"a", "b", "c", "d", "e", "f", "g", "h", "i", "j", "k", "l", "m",
          "n", "o", "p", "q", "r", "s", "t", "u", "v", "w", "x", "y", "z"}

\* \w
WordChars == Upper \cup Lower \cup Digits \cup {"_"}

\* [A-z_]: the range A-z also holds the characters between Z and a.  (The
\* backquote, the sixth of them, cannot be written in a string of this
\* language and is left out.)
AzChars == Upper \cup Lower \cup {"[", "\\", "]", "^", "_"}

\* [{}()\[\].,;+\-*/&|<>=~]
SymbolChars == {"{", "}", "(", ")", "[", "]", ".", ",", ";", "+", "-", "*",
                "/", "&", "|", "<", ">", "=", "~"}

\* what str.split() splits on
Whitespace == {" ", "\n", "\t", "\r", "\f"}

DigitVal(c) ==
  CASE c = "0" -> 0 [] c = "1" -> 1 [] c = "2" -> 2 [] c = "3" -> 3
    [] c = "4" -> 4 [] c = "5" -> 5 [] c = "6" -> 6 [] c = "7" -> 7
    [] c = "8" -> 8 [] c = "9" -> 9

DigitChar(n) ==
  CASE n = 0 -> "0" [] n = 1 -> "1" [] n = 2 -> "2" [] n = 3 -> "3"
    [] n = 4 -> "4" [] n = 5 -> "5" [] n = 6 -> "6" [] n = 7 -> "7"
    [] n = 8 -> "8" [] n = 9 -> "9"

-----------------------------------------------------------------------------
(* The keywords, spelled out.                                              *)

w_class == <<"c", "l", "a", "s", "s">>
w_constructor == <<"c", "o", "n", "s", "t", "r", "u", "c", "t", "o", "r">>
w_function == <<"f", "u", "n", "c", "t", "i", "o", "n">>
w_method == <<"m", "e", "t", "h", "o", "d">>
w_field == <<"f", "i", "e", "l", "d">>
w_static == <<"s", "t", "a", "t", "i", "c">>
w_var == <<"v", "a", "r">>
w_int == <<"i", "n", "t">>
w_char == <<"c", "h", "a", "r">>
w_boolean == <<"b", "o", "o", "l", "e", "a", "n">>
w_void == <<"v", "o", "i", "d">>
w_true == <<"t", "r", "u", "e">>
w_false == <<"f", "a", "l", "s", "e">>
w_null == <<"n", "u", "l", "l">>
w_this == <<"t", "h", "i", "s">>
w_let == <<"l", "e", "t">>
w_do == <<"d", "o">>
w_if == <<"i", "f">>
w_else == <<"e", "l", "s", "e">>
w_while == <<"w", "h", "i", "l", "e">>
w_return == <<"r", "e", "t", "u", "r", "n">>

-----------------------------------------------------------------------------
(* parser/utils/token_types.py                                             *)

KEYWORD == 2
SYMBOL == 3
IDENTIFIER == 4
INT_CONST == 5
STRING_CONST == 6
CLASS == 7
METHOD == 8
FUNCTION == 9
CONSTRUCTOR == 10
INT == 11
BOOLEAN_ == 12
CHAR == 13
VOID == 14
VAR == 15
STATIC == 16
FIELD == 17
LET_ == 18
DO == 19
IF_ == 20
ELSE_ == 21
WHILE == 22
RETURN == 23
TRUE_ == 24
FALSE_ == 25
NULL == 26
THIS == 27

\* the value token_type() returns for a token no pattern matches (None)
None == 0

-----------------------------------------------------------------------------
(* parser/utils/patterns.py                                                *)

\* BLOCK_COMMENT_START.search(line): "/*" anywhere in the line.
BLOCK_COMMENT_START_search(line) ==
  \E i \in 1..Len(line) : StartsAt(line, i, <<"/", "*">>)

\* BLOCK_COMMENT.sub('', s), BLOCK_COMMENT = "/\*.*\*/" with re.S: the match
\* starts at the leftmost "/*" that has a "*/" behind it and, the .* being
\* greedy and matching line breaks, ends at the LAST "*/" of s.  Nothing
\* after that match can match again.
BLOCK_COMMENT_sub(s) ==
  LET closers == { j \in 1..Len(s) : StartsAt(s, j, <<"*", "/">>) }
      openers == { i \in 1..Len(s) : /\ StartsAt(s, i, <<"/", "*">>)
                                     /\ \E j \in closers : j >= i + 2 }
  IN  IF openers = {} THEN s
      ELSE SubSeq(s, 1, Min(openers) - 1) \o SubSeq(s, Max(closers) + 2, Len(s))

\* LINE_COMMENT.sub('', s), LINE_COMMENT = "//.*\n": every match runs from a
\* "//" to the first line break behind it; a "//" with no line break behind
\* it does not match.
RECURSIVE LINE_COMMENT_sub(_)
LINE_COMMENT_sub(s) ==
  LET starts == { i \in 1..Len(s) : /\ StartsAt(s, i, <<"/", "/">>)
                                    /\ \E j \in (i + 2)..Len(s) : s[j] = "\n" }
  IN  IF starts = {} THEN s
      ELSE LET i == Min(starts)
               j == Min({ k \in (i + 2)..Len(s) : s[k] = "\n" })
           IN  SubSeq(s, 1, i - 1) \o LINE_COMMENT_sub(SubSeq(s, j + 1, Len(s)))

\* The alternatives of KEYWORD, in the order the pattern lists them.
KEYWORD_alternatives ==
  << w_class, w_constructor, w_function, w_method, w_field, w_static,
     w_var, w_int, w_char, w_boolean, w_void, w_true, w_false, w_null, w_this,
     w_let, w_do, w_if, w_else, w_while, w_return >>

KEYWORD_fullmatch(t) ==
  \E k \in 1..Len(KEYWORD_alternatives) : KEYWORD_alternatives[k] = t

SYMBOL_fullmatch(t) == Len(t) = 1 /\ t[1] \in SymbolChars

\* '\d{1,4}|(\d{5}(?<=[0-3][0-2][0-7][0-6][0-7]))'
INT_CONST_fullmatch(t) ==
  /\ \A i \in 1..Len(t) : t[i] \in Digits
  /\ \/ Len(t) \in 1..4
     \/ /\ Len(t) = 5
        /\ DigitVal(t[1]) \in 0..3
        /\ DigitVal(t[2]) \in 0..2
        /\ DigitVal(t[3]) \in 0..7
        /\ DigitVal(t[4]) \in 0..6
        /\ DigitVal(t[5]) \in 0..7

\* '"(.(?<!"))*"'
STRING_CONST_fullmatch(t) ==
  /\ Len(t) >= 2
  /\ t[1] = "\""
  /\ t[Len(t)] = "\""
  /\ \A i \in 2..(Len(t) - 1) : t[i] # "\"" /\ t[i] # "\n"

\* '[A-z_]\w*'
IDENTIFIER_fullmatch(t) ==
  /\ Len(t) >= 1
  /\ t[1] \in AzChars
  /\ \A i \in 2..Len(t) : t[i] \in WordChars

\* The length of the match of ALL_TERMINATORS that starts at line[i], 0 when
\* there is none.  The five groups are tried in the order keyword, symbol,
\* integer constant, string constant, identifier, and inside a group the
\* alternatives in the order written: the first one that matches wins.
ALL_TERMINATORS_match(line, i) ==
  LET kws == { k \in 1..Len(KEYWORD_alternatives) :
                 StartsAt(line, i, KEYWORD_alternatives[k]) }
      quotes == { j \in (i + 1)..Len(line) : line[j] = "\"" }
  IN  IF kws # {} THEN Len(KEYWORD_alternatives[Min(kws)])
      ELSE IF line[i] \in SymbolChars THEN 1
      ELSE IF line[i] \in Digits
        THEN Min({4, RunEnd(line, i, Digits) - i + 1})
      ELSE IF /\ line[i] = "\""
              /\ quotes # {}
              /\ \A j \in (i + 1)..(Min(quotes) - 1) : line[j] # "\n"
        THEN Min(quotes) - i + 1
      ELSE IF line[i] \in AzChars
        THEN RunEnd(line, i + 1, WordChars) - i + 1
      ELSE 0

\* [m.group(0) for m in ALL_TERMINATORS.finditer(line)], from position i on.
\* No alternative starts with white space, so a run of it is stepped over at
\* once; any other character that starts no match is stepped over alone.
RECURSIVE ALL_TERMINATORS_finditer(_, _)
ALL_TERMINATORS_finditer(line, i) ==
  IF i > Len(line) THEN <<>>
  ELSE IF line[i] \in Whitespace
    THEN ALL_TERMINATORS_finditer(line, RunEnd(line, i, Whitespace) + 1)
  ELSE LET n == ALL_TERMINATORS_match(line, i)
       IN  IF n = 0 THEN ALL_TERMINATORS_finditer(line, i + 1)
           ELSE <<SubSeq(line, i, i + n - 1)>>
                  \o ALL_TERMINATORS_finditer(line, i + n)

-----------------------------------------------------------------------------
(* parser/jack_tokenizer.py                                                *)

NoExc == [kind |-> "none", msg |-> <<>>]

OK(s) == s.exc.kind = "none"

Raise(s, kind, msg) == [s EXCEPT !.exc = [kind |-> kind, msg |-> msg]]

w_amp == <<"&", "a", "m", "p", ";">>
w_lt == <<"&", "l", "t", ";">>
w_gt == <<"&", "g", "t", ";">>

\* XML_ESCAPES[c] if c in XML_ESCAPES else c, for a one-character lexeme
XML_ESCAPES(t) ==
  CASE t = <<"&">> -> w_amp
    [] t = <<"<">> -> w_lt
    [] t = <<">">> -> w_gt
    [] OTHER -> t

KEYWORDS_TABLE(w) ==
  CASE w = w_class -> CLASS
    [] w = w_method -> METHOD
    [] w = w_function -> FUNCTION
    [] w = w_constructor -> CONSTRUCTOR
    [] w = w_int -> INT
    [] w = w_boolean -> BOOLEAN_
    [] w = w_char -> CHAR
    [] w = w_void -> VOID
    [] w = w_var -> VAR
    [] w = w_static -> STATIC
    [] w = w_field -> FIELD
    [] w = w_let -> LET_
    [] w = w_do -> DO
    [] w = w_if -> IF_
    [] w = w_else -> ELSE_
    [] w = w_while -> WHILE
    [] w = w_return -> RETURN
    [] w = w_true -> TRUE_
    [] w = w_false -> FALSE_
    [] w = w_null -> NULL
    [] w = w_this -> THIS

NAMES_TABLE(n) ==
  CASE n = CLASS -> w_class
    [] n = METHOD -> w_method
    [] n = FUNCTION -> w_function
    [] n = CONSTRUCTOR -> w_constructor
    [] n = INT -> w_int
    [] n = BOOLEAN_ -> w_boolean
    [] n = CHAR -> w_char
    [] n = VOID -> w_void
    [] n = VAR -> w_var
    [] n = STATIC -> w_static
    [] n = FIELD -> w_field
    [] n = LET_ -> w_let
    [] n = DO -> w_do
    [] n = IF_ -> w_if
    [] n = ELSE_ -> w_else
    [] n = WHILE -> w_while
    [] n = RETURN -> w_return
    [] n = TRUE_ -> w_true
    [] n = FALSE_ -> w_false
    [] n = NULL -> w_null
    [] n = THIS -> w_this

\* for line in self.fd: the physical lines, each with its line break
RECURSIVE readlines(_)
readlines(t) ==
  IF t = <<>> THEN <<>>
  ELSE LET nl == { j \in 1..Len(t) : t[j] = "\n" }
           e == IF nl = {} THEN Len(t) ELSE Min(nl)
       IN  <<SubSeq(t, 1, e)>> \o readlines(SubSeq(t, e + 1, Len(t)))

\* line.split()
RECURSIVE split(_)
split(s) ==
  LET starts == { i \in 1..Len(s) : s[i] \notin Whitespace }
  IN  IF starts = {} THEN <<>>
      ELSE LET i == Min(starts)
               ws == { j \in i..Len(s) : s[j] \in Whitespace }
               e == IF ws = {} THEN Len(s) ELSE Min(ws) - 1
           IN  <<SubSeq(s, i, e)>> \o split(SubSeq(s, e + 1, Len(s)))

\* sep.join(words)
RECURSIVE join(_, _)
join(sep, words) ==
  IF words = <<>> THEN <<>>
  ELSE IF Len(words) = 1 THEN words[1]
  ELSE words[1] \o sep \o join(sep, Tail(words))

\* The tail of the loop body of next_clean_line: strip the line comments,
\* collapse the white space, yield the line unless it is empty.
clean_line(line) ==
  LET l == join(<<" ">>, split(LINE_COMMENT_sub(line)))
  IN  IF l # <<>> THEN <<l>> ELSE <<>>

\* The loop of next_clean_line over lines[k..], with its two local variables.
RECURSIVE next_clean_line_loop(_, _, _, _)
next_clean_line_loop(lines, k, inside_block_comment, block_comment) ==
  IF k > Len(lines) THEN <<>>
  ELSE
    LET line == lines[k]
        inside == inside_block_comment \/ BLOCK_COMMENT_START_search(line)
        bc == block_comment \o line
        comment_removed == BLOCK_COMMENT_sub(bc)
    IN  IF inside
          THEN IF comment_removed # bc
                 THEN clean_line(comment_removed)
                        \o next_clean_line_loop(lines, k + 1, FALSE, <<>>)
                 ELSE next_clean_line_loop(lines, k + 1, TRUE, bc)
          ELSE clean_line(line)
                 \o next_clean_line_loop(lines, k + 1, FALSE, <<>>)

\* list(self.next_clean_line()) when the unread part of the file is t
next_clean_line(t) == next_clean_line_loop(readlines(t), 1, FALSE, <<>>)

\* The lexemes of a list of cleaned lines, in order.
RECURSIVE lexemes_of(_)
lexemes_of(lines) ==
  IF lines = <<>> THEN <<>>
  ELSE ALL_TERMINATORS_finditer(Head(lines), 1) \o lexemes_of(Tail(lines))

has_more_tokens(s) == s.more_tokens

\* The end of advance(): if not self._next_token, mark the stream exhausted.
advance_finish(s) ==
  IF s._next_token = <<>>
    THEN [s EXCEPT !.more_tokens = FALSE, !.fd.closed = TRUE]
    ELSE s

\* advance_lookahead with a plausible bug: the next lexeme is read but not
\* taken off the queue.
advance_lookahead_no_pop(s) ==
  IF s.token_queue.items = <<>>
    THEN [s EXCEPT !._next_token = <<>>]
    ELSE [s EXCEPT !._next_token = Head(s.token_queue.items)]

\* self._next_token = next(self.token_queue).group(0), '' on StopIteration
advance_lookahead(s) ==
  IF s.token_queue.items = <<>>
    THEN [s EXCEPT !._next_token = <<>>]
    ELSE [s EXCEPT !._next_token = Head(s.token_queue.items),
                   !.token_queue.items = Tail(@)]

\* advance().  The for loop reads every line that is still unread and chains
\* its lexemes to the queue; the queue stays the list it was created as when
\* the loop body never runs, and next() of a list is a TypeError.
advance(s) ==
  IF has_more_tokens(s)
    THEN
      LET lines == next_clean_line(s.fd.unread)
          q == IF lines = <<>> THEN s.token_queue
               ELSE [chained |-> TRUE,
                     items |-> s.token_queue.items \o lexemes_of(lines)]
          s1 == [s EXCEPT !.fd.unread = <<>>, !.token_queue = q]
      IN  IF s1._next_token # <<>>
            THEN advance_finish(advance_lookahead(
                   [s1 EXCEPT !.token = s1._next_token,
                              !.line_number = @ + 1]))
          ELSE IF ~q.chained
            THEN Raise(s1, "TypeError", <<"'list' object is not an iterator">>)
          ELSE IF q.items = <<>>
            THEN advance_finish([s1 EXCEPT !._next_token = <<>>])
          ELSE advance_finish(advance_lookahead(
                 [s1 EXCEPT !.token = Head(q.items),
                            !.token_queue.items = Tail(q.items),
                            !.line_number = @ + 1]))
    ELSE Raise(s, "StopIteration", <<"No more tokens">>)

token_type(t) ==
  IF KEYWORD_fullmatch(t) THEN KEYWORD
  ELSE IF SYMBOL_fullmatch(t) THEN SYMBOL
  ELSE IF INT_CONST_fullmatch(t) THEN INT_CONST
  ELSE IF STRING_CONST_fullmatch(t) THEN STRING_CONST
  ELSE IF IDENTIFIER_fullmatch(t) THEN IDENTIFIER
  ELSE None

\* The typed accessors, on a token of the matching type.
key_word(t) == KEYWORDS_TABLE(t)

symbol(t) == XML_ESCAPES(t)

identifier(t) == t

\* int(self.token)
RECURSIVE int_val(_)
int_val(t) ==
  IF t = <<>> THEN 0
  ELSE 10 * int_val(SubSeq(t, 1, Len(t) - 1)) + DigitVal(t[Len(t)])

\* self.token[1:-1]
string_val(t) == SubSeq(t, 2, Len(t) - 1)

\* str(n) of a number n >= 0, as format() writes it
RECURSIVE str_int(_)
str_int(n) ==
  IF n < 10 THEN <<DigitChar(n)>>
  ELSE str_int(n \div 10) \o <<DigitChar(n % 10)>>

\* JackTokenizer(file) and CompilationEngine(infile, outfile) on a file that
\* holds the text t
NewState(t) ==
  [ fd |-> [unread |-> t, closed |-> FALSE],
    token |-> <<>>,
    _next_token |-> <<>>,
    token_queue |-> [chained |-> FALSE, items |-> <<>>],
    more_tokens |-> TRUE,
    line_number |-> 1,
    _indent |-> 0,
    _body |-> <<>>,
    _safe_to_step |-> TRUE,
    _outfile |-> <<>>,
    exc |-> NoExc ]

-----------------------------------------------------------------------------
(* parser/utils/exceptions.py and the output routines of                   *)
(* parser/compilation_engine.py                                            *)

\* CompileError and its subclasses: what `except CompileError` catches.
CompileErrorKinds ==
  { "CompileError", "CompileKeywordError", "CompileSymbolError",
    "CompileTypeError", "CompileClassVarDecError", "CompileSubroutineError",
    "CompileParameterListError", "CompileSubroutineBodyError",
    "CompileVarDecError", "CompileLetError", "CompileExpressionError",
    "CompileOpError", "CompileKeywordConstantError", "CompileDoError",
    "CompileSubroutineCallError", "CompileReturnError", "CompileIfError",
    "CompileWhileError" }

IsCompileError(s) == s.exc.kind \in CompileErrorKinds

\* except CompileError as ex: raise Kind(prefix + str(ex))
Wrap(s, kind, prefix) ==
  IF IsCompileError(s) THEN Raise(s, kind, <<prefix>> \o s.exc.msg) ELSE s

\* an except clause that swallows the exception
Caught(s) == [s EXCEPT !.exc = NoExc]

\* "| ".join(["'{}'".format(x) for x in items])
RECURSIVE expected_list(_)
expected_list(items) ==
  IF items = <<>> THEN <<>>
  ELSE IF Len(items) = 1 THEN <<"'">> \o items[1] \o <<"'">>
  ELSE <<"'">> \o items[1] \o <<"'">> \o <<"| ">> \o expected_list(Tail(items))

\* ' ' * n: the number of blanks written
blanks(n) == IF n < 0 THEN 0 ELSE n

\* '{terminal}'.format(...): a number is written in decimal
leaf_text(entry) ==
  IF entry[1] = "integerConstant" THEN str_int(entry[2]) ELSE entry[2]

\* write_body with a plausible bug: only the first queued leaf is written,
\* the others stay queued.
write_body_first(s) ==
  IF s._body = <<>> THEN s
  ELSE [s EXCEPT
          !._outfile = Append(@, [ indent |-> blanks(s._indent), kind |-> "leaf",
                                   tag |-> s._body[1][1],
                                   text |-> leaf_text(s._body[1]) ]),
          !._body = Tail(@)]

\* write_body(): every queued leaf is written, at the current indent, by
\* write_terminal; iterating the queue empties it.
write_body(s) ==
  [s EXCEPT
     !._outfile = @ \o [ i \in 1..Len(s._body) |->
                          [ indent |-> blanks(s._indent), kind |-> "leaf",
                            tag |-> s._body[i][1],
                            text |-> leaf_text(s._body[i]) ] ],
     !._body = <<>>]

write_non_terminal_start(s, element) ==
  write_body(
    [s EXCEPT
       !._outfile = Append(@, [ indent |-> blanks(s._indent), kind |-> "open",
                                tag |-> element, text |-> <<>> ]),
       !._indent = @ + 2])

write_non_terminal_end(s, element) ==
  LET w == write_body(s)
  IN  [w EXCEPT
         !._indent = @ - 2,
         !._outfile = Append(@, [ indent |-> blanks(w._indent - 2),
                                  kind |-> "close", tag |-> element,
                                  text |-> <<>> ])]

write_non_terminal(s, element) ==
  write_non_terminal_end(write_non_terminal_start(s, element), element)

-----------------------------------------------------------------------------
(* Calls.  A routine of the engine maps the state at its call to the state *)
(* at its return, or at the raise that leaves it (s.exc).  A call names    *)
(* the routine and gives its arguments: <<name, argument, ...>>.           *)

RECURSIVE call(_, _)

\* A statement after others: it runs only if none before it raised.
then(s, c) == IF OK(s) THEN call(s, c) ELSE s

\* Statements in sequence.
RECURSIVE run(_, _)
run(s, calls) ==
  IF calls = <<>> THEN s
  ELSE then(run(s, SubSeq(calls, 1, Len(calls) - 1)), calls[Len(calls)])

\* try: <body> except CompileError as ex: raise Kind(prefix + str(ex)),
\* followed by write_non_terminal_end(element)
wrap_end(s, kind, prefix, element) ==
  IF OK(s) THEN write_non_terminal_end(s, element) ELSE Wrap(s, kind, prefix)

-----------------------------------------------------------------------------
(* The terminal helpers of the engine.                                     *)

mark_unsafe(a) == IF OK(a) THEN [a EXCEPT !._safe_to_step = FALSE] ELSE a

\* f.advance(); self._safe_to_step = False
advance_unsafe(s) == mark_unsafe(call(s, <<"advance">>))

\* if self._safe_to_step: f.advance(); self._safe_to_step = False
step(s) == IF s._safe_to_step THEN call(s, <<"advance_unsafe">>) ELSE s

\* self._body += [tag, terminal]; self._safe_to_step = True
add_leaf(s, tag, terminal) ==
  [s EXCEPT !._body = Append(@, <<tag, terminal>>), !._safe_to_step = TRUE]

keywords_test(a, keywords) ==
  IF ~OK(a) THEN a
  ELSE IF /\ token_type(a.token) = KEYWORD
          /\ \E i \in 1..Len(keywords) :
               key_word(a.token) = KEYWORDS_TABLE(keywords[i])
    THEN add_leaf(a, "keyword", NAMES_TABLE(key_word(a.token)))
  ELSE Raise(a, "CompileKeywordError",
             <<"Expected ">> \o expected_list(keywords))

add_keywords(s, keywords) == keywords_test(step(s), keywords)

symbols_test(a, symbols, is_generator) ==
  IF ~OK(a) THEN a
  ELSE IF /\ token_type(a.token) = SYMBOL
          /\ \E i \in 1..Len(symbols) : symbol(a.token) = symbols[i]
    THEN add_leaf(a, "symbol", symbol(a.token))
  ELSE Raise(a, "CompileSymbolError",
             <<"Expected ">>
               \o expected_list(IF /\ is_generator
                                   /\ token_type(a.token) = SYMBOL
                                  THEN <<>> ELSE symbols))

\* add_symbols(symbols).  is_generator: the caller passes a generator, which
\* the test of the token uses up when the token is a symbol, so that the
\* message then lists nothing.
add_symbols(s, symbols, is_generator) ==
  symbols_test(step(s), symbols, is_generator)

identifier_test(a, what) ==
  IF ~OK(a) THEN a
  ELSE IF token_type(a.token) = IDENTIFIER
    THEN add_leaf(a, "identifier", identifier(a.token))
  ELSE Raise(a, "CompileError", <<"Expected a ", what>>)

add_identifier(s, what) == identifier_test(step(s), what)

type_test(a, valid_types) ==
  IF ~OK(a) THEN a
  ELSE IF /\ token_type(a.token) = KEYWORD
          /\ \E i \in 1..Len(valid_types) :
               key_word(a.token) = valid_types[i]
    THEN add_leaf(a, "keyword", NAMES_TABLE(key_word(a.token)))
  ELSE IF token_type(a.token) = IDENTIFIER
    THEN add_leaf(a, "identifier", identifier(a.token))
  ELSE Raise(a, "CompileTypeError",
             <<"Expected ">>
               \o expected_list([ i \in 1..Len(valid_types) |->
                                    str_int(valid_types[i]) ]
                                \o << <<"className">> >>))

add_type(s, void) ==
  type_test(step(s), IF void THEN <<INT, CHAR, BOOLEAN_, VOID>>
                     ELSE <<INT, CHAR, BOOLEAN_>>)

add_keyword_constant(s) ==
  Wrap(call(s, <<"add_keywords", <<w_true, w_false, w_null, w_this>> >>),
       "CompileKeywordConstantError", "Expected a keyword constant: ")

\* ['+', '-', '*', '/', '&', '|', '<', '>', '='], each escaped
op_symbols ==
  << <<"+">>, <<"-">>, <<"*">>, <<"/">>, XML_ESCAPES(<<"&">>), <<"|">>,
     XML_ESCAPES(<<"<">>), XML_ESCAPES(<<">">>), <<"=">> >>

add_op_or_unary_op(s, unary) ==
  Wrap(IF unary THEN call(s, <<"add_symbols", << <<"-">>, <<"~">> >>, FALSE>>)
       ELSE call(s, <<"add_symbols", op_symbols, TRUE>>),
       "CompileOpError", "Expected an operator: ")

\* the while loop of add_type_var_name_var_name
more_vars_test(a) ==
  IF ~OK(a) THEN a
  ELSE IF symbol(a.token) = <<";">> THEN a
  ELSE run(a, << <<"add_identifier", "variable name">>,
                 <<"more_vars_loop">> >>)

more_vars_loop(s) ==
  more_vars_test(call(s, <<"add_symbols", << <<",">>, <<";">> >>, FALSE>>))

add_type_var_name_var_name(s) ==
  run(s, << <<"add_type", FALSE>>,
            <<"add_identifier", "variable name">>,
            <<"more_vars_loop">> >>)

-----------------------------------------------------------------------------
(* The grammar rules of the engine.                                        *)

sym(c) == <<"add_symbols", << <<c>> >>, FALSE>>

\* add_subroutine_call(): what follows the name and the '(' or '.'
subroutine_call_rest(s) ==
  IF token_type(s.token) = SYMBOL /\ symbol(s.token) = <<"(">>
    THEN run(s, << <<"compile_expression_list">>, sym(")") >>)
  ELSE IF token_type(s.token) = SYMBOL /\ symbol(s.token) = <<".">>
    THEN call(s, <<"add_subroutine_call">>)
  ELSE s

\* add_subroutine_call(): the body of its try, then the wrapping except
add_subroutine_call(s) ==
  Wrap(run(s, << <<"add_identifier",
                   "subroutine name | class name | variable name">>,
                 <<"add_symbols", << <<"(">>, <<".">> >>, FALSE>>,
                 <<"write_body">>,
                 <<"subroutine_call_rest">> >>),
       "CompileSubroutineCallError", "Expected a complete subroutine call: ")

\* expression_list_comma with a plausible bug: the ',' is not written before
\* the next expression is compiled.
expression_list_comma_unwritten(c) ==
  IF c.exc.kind = "CompileSymbolError" THEN Caught(c)
  ELSE run(c, << <<"expression_list_loop">> >>)

\* the while loop of compile_expression_list: after the ',' is looked for
expression_list_comma(c) ==
  IF c.exc.kind = "CompileSymbolError" THEN Caught(c)
  ELSE run(c, << <<"write_body">>, <<"expression_list_loop">> >>)

\* the while loop of compile_expression_list: after the expression
expression_list_expression(e) ==
  IF e.exc.kind = "CompileExpressionError" THEN Caught(e)
  ELSE IF ~OK(e) THEN e
  ELSE expression_list_comma(call(e, sym(",")))

\* the while loop of compile_expression_list
expression_list_loop(s) ==
  IF \/ token_type(s.token) = SYMBOL /\ symbol(s.token) # <<")">>
     \/ token_type(s.token) # SYMBOL
    THEN expression_list_expression(call(s, <<"compile_expression">>))
    ELSE s

compile_expression_list(s) ==
  run(s, << <<"write_non_terminal_start", "expressionList">>,
            <<"step">>,
            <<"expression_list_loop">>,
            <<"write_non_terminal_end", "expressionList">> >>)

\* compile_term(): after the identifier, on the token that follows it
term_identifier_rest(s) ==
  IF token_type(s.token) # SYMBOL THEN s
  ELSE IF symbol(s.token) = <<"[">>
    THEN run(s, << sym("["), <<"write_body">>, <<"compile_expression">>,
                   sym("]") >>)
  ELSE IF symbol(s.token) = <<"(">>
    THEN run(s, << sym("("), <<"write_body">>,
                   <<"compile_expression_list">>, sym(")") >>)
  ELSE IF symbol(s.token) = <<".">>
    THEN run(s, << sym("."), <<"write_body">>, <<"add_subroutine_call">> >>)
  ELSE s

\* compile_term(): the alternatives, on the first token of the term
term_alternatives(s) ==
  IF token_type(s.token) = INT_CONST
    THEN add_leaf(s, "integerConstant", int_val(s.token))
  ELSE IF token_type(s.token) = STRING_CONST
    THEN add_leaf(s, "stringConstant", string_val(s.token))
  ELSE IF token_type(s.token) = KEYWORD
    THEN call(s, <<"add_keyword_constant">>)
  ELSE IF token_type(s.token) = IDENTIFIER
    THEN run(s, << <<"add_identifier",
                     "variable name | subroutine name | class name">>,
                   <<"advance_unsafe">>,
                   <<"term_identifier_rest">> >>)
  ELSE IF token_type(s.token) = SYMBOL
    THEN IF symbol(s.token) = <<"(">>
           THEN run(s, << sym("("), <<"write_body">>,
                          <<"compile_expression">>, sym(")") >>)
         ELSE IF symbol(s.token) \in { <<"-">>, <<"~">> }
           THEN run(s, << <<"add_op_or_unary_op", TRUE>>, <<"write_body">>,
                          <<"compile_term">> >>)
         ELSE s
  ELSE s

compile_term(s) ==
  run(s, << <<"write_non_terminal_start", "term">>,
            <<"step">>,
            <<"term_alternatives">>,
            <<"write_non_terminal_end", "term">> >>)

\* the while loop of compile_expression, (op term)*: after one op term
op_term_test(t) ==
  IF t.exc.kind = "CompileOpError" THEN Caught(t)
  ELSE IF ~OK(t) THEN t
  ELSE call(t, <<"op_term_loop">>)

op_term_loop(s) ==
  op_term_test(run(s, << <<"add_op_or_unary_op", FALSE>>, <<"write_body">>,
                         <<"compile_term">> >>))

compile_expression(s) ==
  wrap_end(run(s, << <<"write_non_terminal_start", "expression">>,
                     <<"compile_term">>,
                     <<"op_term_loop">> >>),
           "CompileExpressionError", "Expected a complete expression: ",
           "expression")

compile_do(s) ==
  wrap_end(run(s, << <<"add_keywords", <<w_do>> >>,
                     <<"write_non_terminal_start", "doStatement">>,
                     <<"add_subroutine_call">>,
                     sym(";") >>),
           "CompileDoError", "Expected a complete do statement: ",
           "doStatement")

\* compile_let(): the optional '[' expression ']', after '[' is looked for
let_index(br) ==
  IF br.exc.kind = "CompileSymbolError" THEN Caught(br)
  ELSE run(br, << <<"write_body">>, <<"compile_expression">>, sym("]") >>)

let_optional_index(s) == let_index(call(s, sym("[")))

compile_let(s) ==
  wrap_end(run(s, << <<"add_keywords", <<w_let>> >>,
                     <<"add_identifier", "variable name">>,
                     <<"write_non_terminal_start", "letStatement">>,
                     <<"let_optional_index">>,
                     sym("="),
                     <<"write_body">>,
                     <<"compile_expression">>,
                     sym(";") >>),
           "CompileLetError", "Expected a complete let statement: ",
           "letStatement")

compile_while(s) ==
  wrap_end(run(s, << <<"add_keywords", <<w_while>> >>,
                     sym("("),
                     <<"write_non_terminal_start", "whileStatement">>,
                     <<"compile_expression">>,
                     sym(")"),
                     sym("{"),
                     <<"write_body">>,
                     <<"compile_statements">>,
                     sym("}") >>),
           "CompileWhileError", "Exprected a complete while statement: ",
           "whileStatement")

\* compile_return(): the optional expression, after it was tried
return_expression(e) ==
  IF e.exc.kind = "CompileExpressionError" THEN call(Caught(e), sym(";"))
  ELSE run(e, << sym(";") >>)

\* compile_return(): after ';' is looked for
return_semicolon(semi) ==
  IF semi.exc.kind # "CompileSymbolError" THEN semi
  ELSE return_expression(call(Caught(semi), <<"compile_expression">>))

return_optional_expression(s) == return_semicolon(call(s, sym(";")))

compile_return(s) ==
  wrap_end(run(s, << <<"add_keywords", <<w_return>> >>,
                     <<"write_non_terminal_start", "returnStatement">>,
                     <<"return_optional_expression">> >>),
           "CompileReturnError", "Expected a complete return statement: ",
           "returnStatement")

\* compile_if(): the else clause, on the token after the '}'
if_optional_else(s) ==
  IF token_type(s.token) = KEYWORD /\ key_word(s.token) = ELSE_
    THEN run(s, << <<"add_keywords", <<w_else>> >>,
                   sym("{"),
                   <<"write_body">>,
                   <<"compile_statements">>,
                   sym("}") >>)
    ELSE s

compile_if(s) ==
  wrap_end(run(s, << <<"add_keywords", <<w_if>> >>,
                     sym("("),
                     <<"write_non_terminal_start", "ifStatement">>,
                     <<"compile_expression">>,
                     sym(")"),
                     sym("{"),
                     <<"write_body">>,
                     <<"compile_statements">>,
                     sym("}"),
                     <<"advance_unsafe">>,
                     <<"if_optional_else">> >>),
           "CompileIfError", "Expected a complete if statement: ",
           "ifStatement")

\* compile_statements(): the statement the keyword announces
statement(s) ==
  IF key_word(s.token) = LET_ THEN call(s, <<"compile_let">>)
  ELSE IF key_word(s.token) = IF_ THEN call(s, <<"compile_if">>)
  ELSE IF key_word(s.token) = WHILE THEN call(s, <<"compile_while">>)
  ELSE IF key_word(s.token) = DO THEN call(s, <<"compile_do">>)
  ELSE IF key_word(s.token) = RETURN THEN call(s, <<"compile_return">>)
  ELSE Raise(s, "CompileKeywordError",
             <<"Expected let | if | while | do | return">>)

\* the while loop of compile_statements
statements_loop(s) ==
  IF token_type(s.token) = KEYWORD
    THEN run(s, << <<"statement">>, <<"step">>, <<"statements_loop">> >>)
    ELSE s

\* compile_statements(): a '{' that is the current token is stepped over
statements_brace(s) ==
  IF token_type(s.token) = SYMBOL /\ symbol(s.token) = <<"{">>
    THEN call(s, <<"advance_unsafe">>)
    ELSE s

compile_statements(s) ==
  run(s, << <<"write_non_terminal_start", "statements">>,
            <<"statements_brace">>,
            <<"statements_loop">>,
            <<"write_non_terminal_end", "statements">> >>)

\* compile_var_dec(): what follows the keyword
var_dec_rest(s) ==
  run(Wrap(call(s, <<"add_type_var_name_var_name">>),
           "CompileVarDecError", "Expected a complete variable declaration: "),
      << <<"write_non_terminal", "varDec">> >>)

compile_var_dec(s) ==
  run(s, << <<"add_keywords", <<w_var>> >>, <<"var_dec_rest">> >>)

\* loop_test with a plausible bug: after the failed attempt the loop asks
\* for a fresh token instead of reusing the one already advanced onto.
loop_test_repeek(a, loop) ==
  IF a.exc.kind = "CompileKeywordError"
    THEN [Caught(a) EXCEPT !._safe_to_step = TRUE]
  ELSE run(a, << <<loop>> >>)

\* while True: try: <rule>() except CompileKeywordError: break
loop_test(a, loop) ==
  IF a.exc.kind = "CompileKeywordError" THEN Caught(a)
  ELSE run(a, << <<loop>> >>)

var_dec_loop(s) == loop_test(call(s, <<"compile_var_dec">>), "var_dec_loop")

compile_subroutine_body(s) ==
  wrap_end(run(s, << sym("{"),
                     <<"write_non_terminal_start", "subroutineBody">>,
                     <<"var_dec_loop">>,
                     <<"compile_statements">>,
                     sym("}") >>),
           "CompileSubroutineBodyError",
           "Expected a complete subroutine body declaration: ",
           "subroutineBody")

\* the while loop of compile_parameter_list: after the ',' is looked for
parameter_list_comma(c) ==
  IF c.exc.kind = "CompileSymbolError" THEN Caught(c)
  ELSE run(c, << <<"parameter_list_loop">> >>)

\* the while loop of compile_parameter_list: after the type is looked for
parameter_list_type(t) ==
  IF t.exc.kind = "CompileTypeError" THEN Caught(t)
  ELSE IF ~OK(t) THEN t
  ELSE parameter_list_comma(
         run(Wrap(call(t, <<"add_identifier", "variable name">>),
                  "CompileParameterListError",
                  "Expected a complete parameter list declaration: "),
             << sym(",") >>))

parameter_list_loop(s) == parameter_list_type(call(s, <<"add_type", FALSE>>))

compile_parameter_list(s) ==
  run(s, << <<"parameter_list_loop">>,
            <<"write_non_terminal", "parameterList">> >>)

\* compile_subroutine(): what follows the keyword
subroutine_rest(s) ==
  wrap_end(run(s, << <<"add_type", TRUE>>,
                     <<"add_identifier", "subroutine name">>,
                     sym("("),
                     <<"write_non_terminal_start", "subroutineDec">>,
                     <<"compile_parameter_list">>,
                     sym(")"),
                     <<"write_body">>,
                     <<"compile_subroutine_body">> >>),
           "CompileSubroutineError",
           "Expected a complete method, function or constructor declaration: ",
           "subroutineDec")

compile_subroutine(s) ==
  run(s, << <<"add_keywords", <<w_constructor, w_function, w_method>> >>,
            <<"subroutine_rest">> >>)

\* compile_class_var_dec(): what follows the keyword
class_var_dec_rest(s) ==
  run(Wrap(call(s, <<"add_type_var_name_var_name">>),
           "CompileClassVarDecError",
           "Expected a complete static  or a field declaration: "),
      << <<"write_non_terminal", "classVarDec">> >>)

compile_class_var_dec(s) ==
  run(s, << <<"add_keywords", <<w_static, w_field>> >>,
            <<"class_var_dec_rest">> >>)

class_var_dec_loop(s) ==
  loop_test(call(s, <<"compile_class_var_dec">>), "class_var_dec_loop")

subroutine_loop(s) ==
  loop_test(call(s, <<"compile_subroutine">>), "subroutine_loop")

compile_class(s) ==
  run(s, << <<"add_keywords", <<w_class>> >>,
            <<"add_identifier", "class name">>,
            sym("{"),
            <<"write_non_terminal_start", "class">>,
            <<"class_var_dec_loop">>,
            <<"subroutine_loop">>,
            sym("}"),
            <<"write_non_terminal_end", "class">> >>)

\* The call c on the state s.
call(s, c) ==
  CASE c[1] = "advance" -> advance(s)
    [] c[1] = "advance_unsafe" -> advance_unsafe(s)
    [] c[1] = "step" -> step(s)
    [] c[1] = "write_body" -> write_body(s)
    [] c[1] = "write_non_terminal_start" -> write_non_terminal_start(s, c[2])
    [] c[1] = "write_non_terminal_end" -> write_non_terminal_end(s, c[2])
    [] c[1] = "write_non_terminal" -> write_non_terminal(s, c[2])
    [] c[1] = "add_keywords" -> add_keywords(s, c[2])
    [] c[1] = "add_symbols" -> add_symbols(s, c[2], c[3])
    [] c[1] = "add_identifier" -> add_identifier(s, c[2])
    [] c[1] = "add_type" -> add_type(s, c[2])
    [] c[1] = "add_keyword_constant" -> add_keyword_constant(s)
    [] c[1] = "add_op_or_unary_op" -> add_op_or_unary_op(s, c[2])
    [] c[1] = "more_vars_loop" -> more_vars_loop(s)
    [] c[1] = "add_type_var_name_var_name" -> add_type_var_name_var_name(s)
    [] c[1] = "subroutine_call_rest" -> subroutine_call_rest(s)
    [] c[1] = "add_subroutine_call" -> add_subroutine_call(s)
    [] c[1] = "expression_list_loop" -> expression_list_loop(s)
    [] c[1] = "compile_expression_list" -> compile_expression_list(s)
    [] c[1] = "term_identifier_rest" -> term_identifier_rest(s)
    [] c[1] = "term_alternatives" -> term_alternatives(s)
    [] c[1] = "compile_term" -> compile_term(s)
    [] c[1] = "op_term_loop" -> op_term_loop(s)
    [] c[1] = "compile_expression" -> compile_expression(s)
    [] c[1] = "compile_do" -> compile_do(s)
    [] c[1] = "let_optional_index" -> let_optional_index(s)
    [] c[1] = "compile_let" -> compile_let(s)
    [] c[1] = "compile_while" -> compile_while(s)
    [] c[1] = "return_optional_expression" -> return_optional_expression(s)
    [] c[1] = "compile_return" -> compile_return(s)
    [] c[1] = "if_optional_else" -> if_optional_else(s)
    [] c[1] = "compile_if" -> compile_if(s)
    [] c[1] = "statement" -> statement(s)
    [] c[1] = "statements_loop" -> statements_loop(s)
    [] c[1] = "statements_brace" -> statements_brace(s)
    [] c[1] = "compile_statements" -> compile_statements(s)
    [] c[1] = "var_dec_rest" -> var_dec_rest(s)
    [] c[1] = "compile_var_dec" -> compile_var_dec(s)
    [] c[1] = "var_dec_loop" -> var_dec_loop(s)
    [] c[1] = "compile_subroutine_body" -> compile_subroutine_body(s)
    [] c[1] = "parameter_list_loop" -> parameter_list_loop(s)
    [] c[1] = "compile_parameter_list" -> compile_parameter_list(s)
    [] c[1] = "subroutine_rest" -> subroutine_rest(s)
    [] c[1] = "compile_subroutine" -> compile_subroutine(s)
    [] c[1] = "class_var_dec_rest" -> class_var_dec_rest(s)
    [] c[1] = "compile_class_var_dec" -> compile_class_var_dec(s)
    [] c[1] = "class_var_dec_loop" -> class_var_dec_loop(s)
    [] c[1] = "subroutine_loop" -> subroutine_loop(s)
    [] c[1] = "compile_class" -> compile_class(s)

-----------------------------------------------------------------------------
(* The state of the two objects as one record, and back.                   *)

Cur ==
  [ fd |-> fd, token |-> token, _next_token |-> _next_token,
    token_queue |-> token_queue, more_tokens |-> more_tokens,
    line_number |-> line_number, _indent |-> _indent, _body |-> _body,
    _safe_to_step |-> _safe_to_step, _outfile |-> _outfile, exc |-> NoExc ]

Assign(r) ==
  /\ fd' = r.fd
  /\ token' = r.token
  /\ _next_token' = r._next_token
  /\ token_queue' = r.token_queue
  /\ more_tokens' = r.more_tokens
  /\ line_number' = r.line_number
  /\ _indent' = r._indent
  /\ _body' = r._body
  /\ _safe_to_step' = r._safe_to_step
  /\ _outfile' = r._outfile
  /\ exc' = r.exc

\* The objects as constructed over a file that holds the text t.
Fresh(t) ==
  /\ text = t
  /\ fd = NewState(t).fd
  /\ token = NewState(t).token
  /\ _next_token = NewState(t)._next_token
  /\ token_queue = NewState(t).token_queue
  /\ more_tokens = NewState(t).more_tokens
  /\ line_number = NewState(t).line_number
  /\ _indent = NewState(t)._indent
  /\ _body = NewState(t)._body
  /\ _safe_to_step = NewState(t)._safe_to_step
  /\ _outfile = NewState(t)._outfile
  /\ exc = NoExc
  /\ result = 0
  /\ pc = "ready"
  /\ delivered = <<>>
  /\ files = <<>>
  /\ stdout = <<>>
  /\ token_cache = <<>>
  /\ classified = <<>>

\* Every lexeme of a text, in order: what a run of advance() to exhaustion
\* has to deliver.
Lexemes(t) == lexemes_of(next_clean_line(t))

\* The lexemes the tokenizer r has made current so far, read off its state.
Consumed(t, r) ==
  LET all == Lexemes(t)
      ahead == Len(r.token_queue.items)
                 + (IF r._next_token # <<>> THEN 1 ELSE 0)
  IN  IF r.token = <<>> THEN <<>> ELSE SubSeq(all, 1, Len(all) - ahead)

-----------------------------------------------------------------------------
(* Inputs.  A unit is a list of lines, each a list of lexemes; its text    *)
(* puts one blank between the lexemes of a line and ends every line with a *)
(* newline.                                                                *)

MaxStmts == 2      \* statements in a subroutine body
MaxArgs == 2       \* arguments of a subroutine call
MaxChunks == 5     \* pieces of a text given to the tokenizer alone
MaxDigits == 5     \* digits of a run of digits

SeqsUpTo(S, n) == UNION { [1..k -> S] : k \in 0..n }

RECURSIVE TextOf(_)
TextOf(lines) ==
  IF lines = <<>> THEN <<>>
  ELSE join(<<" ">>, Head(lines)) \o <<"\n">> \o TextOf(Tail(lines))

lx(c) == <<c>>
n_x == <<"x">>
n_y == <<"y">>
n_a == <<"a">>
n_f == <<"f">>
n_A == <<"A">>
n_Main == <<"M", "a", "i", "n">>
n_x1 == <<"_", "x", "1">>
d_1 == <<"1">>
d_2 == <<"2">>

\* Statements, well formed and not.
st_let == << w_let, n_x, lx("="), d_1, lx(";") >>
st_let_index == << w_let, n_x, lx("["), n_y, lx("]"), lx("="), n_x, lx("+"), d_1, lx(";") >>
st_let_call == << w_let, n_x, lx("="), n_a, lx("."), n_f, lx("("), d_1, lx(")"), lx(";") >>
st_let_no_eq == << w_let, n_x, d_1, lx(";") >>
st_let_empty == << w_let, n_x, lx("="), lx(";") >>
st_do == << w_do, n_f, lx("("), n_x, lx(","), d_1, lx(")"), lx(";") >>
st_return == << w_return, lx(";") >>
st_return_x == << w_return, n_x, lx(";") >>
st_return_open == << w_return, lx("("), d_1, lx(";") >>
st_brace == << lx("{") >>
st_if == << w_if, lx("("), n_x, lx(")"), lx("{"), w_return, lx(";"), lx("}"),
            w_else, lx("{"), lx("}") >>
st_while == << w_while, lx("("), lx("~"), n_x, lx(")"), lx("{"), w_do, n_f,
               lx("("), lx(")"), lx(";"), lx("}") >>

CompleteLets == { st_let, st_let_index, st_let_call }
DropLast(q) == SubSeq(q, 1, Len(q) - 1)
OmittedLets == { DropLast(q) : q \in CompleteLets }

BodyStatements ==
  { st_let, st_let_index, DropLast(st_let), st_do, st_return,
    st_return_open, st_brace, st_if, st_while }

\* What may stand after a statement, a term or a declaration.
Follows == { <<>>, << lx("}") >>, << lx(")") >>, << w_let, n_y, lx("="), d_2, lx(";") >> }

\* Terms: a call through a class or variable name with n arguments, others.
ArgExpressions ==
  { << d_1 >>, << n_x, lx("+"), d_1 >>, << lx("-"), n_x >>,
    << lx("("), n_x, lx(")") >>, << n_a, lx("."), n_f, lx("("), lx(")") >> }

RECURSIVE ArgTokens(_)
ArgTokens(args) ==
  IF args = <<>> THEN <<>>
  ELSE IF Len(args) = 1 THEN args[1]
  ELSE args[1] \o << lx(",") >> \o ArgTokens(Tail(args))

QualifiedCall(args) ==
  << n_A, lx("."), n_f, lx("(") >> \o ArgTokens(args) \o << lx(")") >>

\* the string constant "a<b"
sc_lt == <<"\"", "a", "<", "b", "\"">>

OtherTerms ==
  { << n_x >>, << d_1 >>, << n_x, lx("["), d_1, lx("]") >>,
    << n_f, lx("("), lx(")") >>, << w_true >>, << lx(";") >>,
    << n_A, lx("."), n_f, lx("("), d_1, lx(",") >>,
    << n_A, lx("."), n_f, lx("("), d_1, d_2, lx(")") >>,
    << sc_lt >>, << n_x, lx("<"), d_1 >>, << n_x, lx("&"), n_y >>,
    << lx(")") >>, << lx("]") >>, << lx(",") >>,
    << n_f, lx("("), d_1, lx(","), lx(")") >> }

\* Declarations and subroutine bodies.
dc_field == << w_field, w_int, n_x, lx(","), n_y, lx(";") >>
dc_static == << w_static, n_A, n_a, lx(";") >>
dc_var == << w_var, w_int, n_x, lx(";") >>
dc_var_open == << w_var, w_int, n_x >>
dc_params == << w_int, n_x, lx(","), n_A, n_y >>
dc_params_open == << w_int, n_x, lx(",") >>
dc_function == << w_function, w_void, n_f, lx("("), lx(")"), lx("{") >>
dc_method == << w_method, w_int, n_f, lx("("), w_int, n_x, lx(")"), lx("{") >>

Declarations ==
  { dc_field, dc_static, dc_var, dc_var_open, dc_params, dc_params_open,
    <<>>,
    dc_function \o << lx("}") >>,
    dc_method \o dc_var \o st_return_x \o << lx("}") >>,
    << lx("{"), lx("}") >>,
    << lx("{") >> \o dc_var \o st_let \o << lx("}") >>,
    << lx("{"), lx("{"), lx("}") >>,
    << lx("{") >> \o st_return }

StatementRules ==
  { "compile_let", "compile_do", "compile_return", "compile_if",
    "compile_while", "compile_statements" }

TermRules ==
  { "compile_term", "compile_expression", "compile_expression_list",
    "add_subroutine_call" }

DeclarationRules ==
  { "compile_class_var_dec", "compile_subroutine", "compile_parameter_list",
    "compile_var_dec", "compile_subroutine_body" }

Unit(rule, family, lines, n) ==
  [ rule |-> rule, family |-> family, lines |-> lines, n |-> n ]

\* class A { [field ..] function void f ( ) { [var ..] statements } tail,
\* one declaration or statement to the line.
ClassLines(decls, body, tail) ==
  << << w_class, n_A, lx("{") >> >>
    \o (IF decls THEN << dc_field >> ELSE <<>>)
    \o << dc_function >>
    \o (IF decls THEN << dc_var >> ELSE <<>>)
    \o body
    \o << << lx("}") >> >>
    \o << tail >>

ClassTails == { << lx("}") >>, <<>>, << lx("}"), lx("}") >> }

\* an empty class that lacks its `class`, its name, its { or its }
MissingClasses ==
  { << n_A, lx("{"), lx("}") >>,
    << w_class, lx("{"), lx("}") >>,
    << w_class, n_A, lx("}") >>,
    << w_class, n_A, lx("{"), lx(")") >> }

ClassUnits ==
  { Unit("compile_class", "class", ClassLines(decls, body, tail), Len(body)) :
      decls \in BOOLEAN, body \in SeqsUpTo(BodyStatements, MaxStmts),
      tail \in ClassTails }
  \cup
  { Unit("compile_class", "emptyClass",
         << << w_class, name, lx("{"), lx("}") >> \o fo >>, 0) :
      name \in { n_A, n_Main, n_x1 }, fo \in Follows }
  \cup
  { Unit("compile_class", "classMissing", << q >>, 0) : q \in MissingClasses }

StatementFamily(q) ==
  IF q \in CompleteLets THEN "letComplete"
  ELSE IF q \in OmittedLets THEN "letOmitted"
  ELSE "statement"

StatementUnits ==
  { Unit(rule, StatementFamily(q), << q \o fo >>, 1) :
      rule \in StatementRules,
      q \in BodyStatements \cup CompleteLets \cup OmittedLets
              \cup { st_let_no_eq, st_let_empty, st_return_x },
      fo \in Follows }

TermUnits ==
  { Unit(rule, "qualifiedCall", << QualifiedCall(args) \o fo >>, Len(args)) :
      rule \in TermRules, args \in SeqsUpTo(ArgExpressions, MaxArgs),
      fo \in Follows }
  \cup
  { Unit(rule, "term", << q \o fo >>, 0) :
      rule \in TermRules, q \in OtherTerms, fo \in Follows }

DeclarationUnits ==
  { Unit(rule, "declaration", << q \o fo >>, 0) :
      rule \in DeclarationRules, q \in Declarations, fo \in Follows }

ParseUnits == ClassUnits \cup StatementUnits \cup TermUnits \cup DeclarationUnits

-----------------------------------------------------------------------------
(* The parser: one rule of the engine is called on a fresh engine whose    *)
(* tokenizer reads the unit.                                               *)

InitParse == \E u \in ParseUnits : unit = u /\ Fresh(TextOf(u.lines))

Call(rule, r) ==
  /\ pc = "ready"
  /\ unit.rule = rule
  /\ Assign(r)
  /\ delivered' = Consumed(text, r)
  /\ pc' = "done"
  /\ UNCHANGED << text, unit, result, files, stdout,
                  token_cache, classified >>

Call_compile_class == Call("compile_class", call(Cur, <<"compile_class">>))
Call_compile_class_var_dec == Call("compile_class_var_dec", call(Cur, <<"compile_class_var_dec">>))
Call_compile_subroutine == Call("compile_subroutine", call(Cur, <<"compile_subroutine">>))
Call_compile_parameter_list == Call("compile_parameter_list", call(Cur, <<"compile_parameter_list">>))
Call_compile_var_dec == Call("compile_var_dec", call(Cur, <<"compile_var_dec">>))
Call_compile_subroutine_body == Call("compile_subroutine_body", call(Cur, <<"compile_subroutine_body">>))
Call_compile_statements == Call("compile_statements", call(Cur, <<"compile_statements">>))
Call_compile_do == Call("compile_do", call(Cur, <<"compile_do">>))
Call_compile_let == Call("compile_let", call(Cur, <<"compile_let">>))
Call_compile_while == Call("compile_while", call(Cur, <<"compile_while">>))
Call_compile_return == Call("compile_return", call(Cur, <<"compile_return">>))
Call_compile_if == Call("compile_if", call(Cur, <<"compile_if">>))
Call_compile_expression == Call("compile_expression", call(Cur, <<"compile_expression">>))
Call_compile_term == Call("compile_term", call(Cur, <<"compile_term">>))
Call_compile_expression_list == Call("compile_expression_list", call(Cur, <<"compile_expression_list">>))
Call_add_subroutine_call == Call("add_subroutine_call", call(Cur, <<"add_subroutine_call">>))

NextParse ==
  \/ Call_compile_class
  \/ Call_compile_class_var_dec
  \/ Call_compile_subroutine
  \/ Call_compile_parameter_list
  \/ Call_compile_var_dec
  \/ Call_compile_subroutine_body
  \/ Call_compile_statements
  \/ Call_compile_do
  \/ Call_compile_let
  \/ Call_compile_while
  \/ Call_compile_return
  \/ Call_compile_if
  \/ Call_compile_expression
  \/ Call_compile_term
  \/ Call_compile_expression_list
  \/ Call_add_subroutine_call

SpecParse == InitParse /\ [][NextParse]_vars

-----------------------------------------------------------------------------
(* The tokenizer alone: advance() is called again and again on a text put  *)
(* together from comment markers, a name and newlines.                     *)

LexChunks == { <<"/", "*">>, <<"*", "/">>, <<"/", "/">>, <<"x">>, <<"\n">> }

LexTexts == { Flatten(cs) : cs \in SeqsUpTo(LexChunks, MaxChunks) }

MaxWordChunks == 3 \* pieces of a word given to the tokenizer alone

WordChunks == { w_do, w_int, <<"x">>, <<"_">>, <<"1">> }

\* words: runs of identifier characters, three runs of five digits, and
\* words that begin with a character between Z and a
LexWords ==
  { Flatten(cs) : cs \in SeqsUpTo(WordChunks, MaxWordChunks) \ { <<>> } }
    \cup { <<"3", "2", "7", "6", "7">>, <<"1", "2", "3", "4", "5">>,
           <<"4", "0", "0", "0", "0">> }
    \cup { <<"^">>, <<"^", "x">>, <<"\\", "x">>, <<"x", "^">> }

MaxStringChunks == 3 \* pieces between the quotes of a string constant

StringChunks == { <<"a">>, <<" ">>, <<"/", "/">>, <<"/", "*">> }

\* what stands between the quotes of a string constant
StringContents ==
  { Flatten(cs) : cs \in SeqsUpTo(StringChunks, MaxStringChunks) }

Quoted(c) == <<"\"">> \o c \o <<"\"">>

InitLex ==
  \/ \E t \in LexTexts : unit = Unit("advance", "text", <<>>, 0) /\ Fresh(t)
  \/ \E c \in StringContents :
       /\ unit = Unit("advance", "string", << << c >> >>, 0)
       /\ Fresh(Quoted(c) \o <<"\n">>)
  \/ \E w \in LexWords :
       /\ unit = Unit("advance", "word", << << w >> >>, 0)
       /\ Fresh(TextOf(<< << w >> >>))

\* The state after a call of advance() that ended in r.  advance() assigns
\* the current token where it counts the line number up.
Deliver(r) ==
  /\ Assign(r)
  /\ delivered' = IF r.line_number # line_number
                    THEN Append(delivered, r.token)
                    ELSE delivered
  /\ UNCHANGED << text, unit, result, pc, files, stdout,
                  token_cache, classified >>

Advance ==
  /\ unit.rule = "advance"
  /\ Deliver(call(Cur, <<"advance">>))

NextLex == Advance

SpecLex == InitLex /\ [][NextLex]_vars

\* C1, state part: on a text with n >= 1 lexemes, after k calls of advance()
\* the current token is the k-th lexeme, the tokens made current so far are
\* the first k lexemes in order, and has_more_tokens() is true exactly while
\* k < n.
C1_Delivered ==
  LET all == Lexemes(text)
      k == Len(delivered)
  IN  (unit.rule = "advance" /\ Len(all) >= 1)
        => /\ k <= Len(all)
           /\ delivered = SubSeq(all, 1, k)
           /\ k >= 1 => token = all[k]
           /\ k >= 1 => has_more_tokens(Cur) = (k < Len(all))
           /\ k = 0 => has_more_tokens(Cur)

\* C1, step part: on such a text a call made while has_more_tokens() is
\* true returns and makes one more lexeme current; a call made while it is
\* false raises and leaves the current token as it was.
C1_Call ==
  (unit.rule = "advance" /\ Len(Lexemes(text)) >= 1)
    => IF has_more_tokens(Cur)
         THEN exc'.kind = "none" /\ Len(delivered') = Len(delivered) + 1
         ELSE exc'.kind # "none" /\ token' = token /\ delivered' = delivered

\* C1: the k-th call of advance() delivers the k-th lexeme, has_more_tokens()
\* turns false with the last one, and a call after that raises without
\* changing the current token.
C1_AdvanceInOrder == [](C1_Delivered) /\ [][C1_Call]_vars

\* C1 witness: a text of at least two lexemes, all of them delivered, and one
\* more call that raised.
C1_Witness ==
  /\ unit.rule = "advance"
  /\ Len(Lexemes(text)) >= 2
  /\ Len(delivered) = Len(Lexemes(text))
  /\ ~has_more_tokens(Cur)
  /\ exc.kind = "StopIteration"
  /\ token = delivered[Len(delivered)]

-----------------------------------------------------------------------------
(* Reading the output.                                                     *)

IsLeaf(e) == e.kind = "leaf"

\* The leaf entries of an output, in the order written.
Leaves(out) == SelectSeq(out, IsLeaf)

\* The lexeme a leaf entry stands for: a symbol unescaped, a string constant
\* with its quotes.
LeafLexeme(e) ==
  IF e.tag = "symbol"
    THEN (CASE e.text = w_amp -> <<"&">>
            [] e.text = w_lt -> <<"<">>
            [] e.text = w_gt -> <<">">>
            [] OTHER -> e.text)
  ELSE IF e.tag = "stringConstant" THEN <<"\"">> \o e.text \o <<"\"">>
  ELSE e.text

LeafLexemes(out) == [ i \in 1..Len(Leaves(out)) |-> LeafLexeme(Leaves(out)[i]) ]

\* The open tags that are still unclosed after the entries of out, innermost
\* last, or <<"unmatched">> once a close matches no open at its depth.
RECURSIVE OpenTags(_, _)
OpenTags(out, stack) ==
  IF out = <<>> \/ stack = <<"unmatched">> THEN stack
  ELSE LET e == Head(out)
       IN  IF e.kind = "open"
             THEN OpenTags(Tail(out), Append(stack, <<e.tag, e.indent>>))
           ELSE IF e.kind = "close"
             THEN IF stack # <<>> /\ stack[Len(stack)] = <<e.tag, e.indent>>
                    THEN OpenTags(Tail(out), SubSeq(stack, 1, Len(stack) - 1))
                    ELSE <<"unmatched">>
           ELSE OpenTags(Tail(out), stack)

Balanced(out) == OpenTags(out, <<>>) = <<>>

Returned(rule) == unit.rule = rule /\ pc = "done" /\ exc.kind = "none"

\* C2: when compile_class returns having advanced over every token of the
\* unit, the leaves written, read in order, are exactly the tokens of the
\* unit: one leaf for each token, none skipped, doubled or out of order.
C2_RoundTrip ==
  (Returned("compile_class") /\ delivered = Lexemes(text))
    => LeafLexemes(_outfile) = Lexemes(text)

\* C3: the depth is never negative, and when compile_class returns without
\* raising every open tag written has its close at the same depth and the
\* depth is back to 0.
C3_WellFormed ==
  /\ _indent >= 0
  /\ Returned("compile_class") => Balanced(_outfile) /\ _indent = 0

\* C4: when a rule returns, either _safe_to_step is true and the current
\* token is the last one it consumed into the output, or _safe_to_step is
\* false and the current token is the one after that: the tokens advanced
\* over are the tokens emitted as leaves, plus one when the flag is false.
C4_OneTokenPast ==
  (pc = "done" /\ exc.kind = "none")
    => Len(delivered) = Len(Leaves(_outfile)) + Len(_body)
                          + (IF _safe_to_step THEN 0 ELSE 1)

\* C5: compile_let returns on a complete let statement; on a let statement
\* without its ';' it raises CompileLetError, whose message is its own
\* expectation text followed by the message of the failure below it.
C5_LetOutcome ==
  (unit.rule = "compile_let" /\ pc = "done")
    => /\ unit.family = "letComplete" => exc.kind = "none"
       /\ unit.family = "letOmitted"
            => /\ exc.kind = "CompileLetError"
               /\ Len(exc.msg) >= 2
               /\ exc.msg[1] = "Expected a complete let statement: "

\* C2 witness: compile_class returned on a class with a field declaration
\* and two statements, every token of which it wrote as a leaf.
C2_Witness ==
  /\ Returned("compile_class")
  /\ unit.family = "class" /\ unit.n = 2
  /\ delivered = Lexemes(text)
  /\ LeafLexemes(_outfile) = Lexemes(text)
  /\ Len(Lexemes(text)) > 20

\* C5 witness: compile_let has raised CompileLetError on a let statement
\* that lacks its ';'.
C5_Witness ==
  /\ unit.rule = "compile_let" /\ pc = "done"
  /\ unit.family = "letOmitted"
  /\ exc.kind = "CompileLetError"

Entry(indent, kind, tag, txt) ==
  [ indent |-> indent, kind |-> kind, tag |-> tag, text |-> txt ]

\* C6: on `class Name { }` compile_class returns having written one class
\* region that holds the leaves keyword class, identifier Name, symbol {,
\* symbol } and nothing else; the four tokens are each advanced onto once,
\* and the } on which both loops stopped is the committed current token.
C6_EmptyClass ==
  (unit.family = "emptyClass" /\ unit.rule = "compile_class" /\ pc = "done")
    => /\ exc.kind = "none"
       /\ _outfile = << Entry(0, "open", "class", <<>>),
                        Entry(2, "leaf", "keyword", w_class),
                        Entry(2, "leaf", "identifier", unit.lines[1][2]),
                        Entry(2, "leaf", "symbol", <<"{">>),
                        Entry(2, "leaf", "symbol", <<"}">>),
                        Entry(0, "close", "class", <<>>) >>
       /\ delivered = SubSeq(unit.lines[1], 1, 4)
       /\ token = <<"}">>
       /\ _safe_to_step
       /\ _body = <<>>

\* C6 witness: compile_class returned on an empty class that other tokens
\* follow.
C6_Witness ==
  /\ unit.family = "emptyClass" /\ Returned("compile_class")
  /\ Len(unit.lines[1]) > 4
  /\ Len(_outfile) = 6

AtDepth(out, d) == SelectSeq(out, LAMBDA e : e.indent = d)

\* n expression regions with a ',' leaf between each two, at depth d
ExpressionsAndCommas(n, d) ==
  [ i \in 1..(IF n = 0 THEN 0 ELSE 3 * n - 1) |->
      IF i % 3 = 1 THEN Entry(d, "open", "expression", <<>>)
      ELSE IF i % 3 = 2 THEN Entry(d, "close", "expression", <<>>)
      ELSE Entry(d, "leaf", "symbol", <<",">>) ]

\* C7: on a call A.f(e1, ..., en) compile_term returns having written one
\* term region that holds identifier A, symbol ., identifier f, symbol (,
\* one expressionList region and symbol ), the expressionList holding n
\* expression regions with a ',' leaf between each two; the token after the
\* ) has not been advanced onto.
C7_QualifiedCall ==
  (unit.family = "qualifiedCall" /\ unit.rule = "compile_term" /\ pc = "done")
    => /\ exc.kind = "none"
       /\ Balanced(_outfile)
       /\ AtDepth(_outfile, 0) = << Entry(0, "open", "term", <<>>),
                                    Entry(0, "close", "term", <<>>) >>
       /\ _outfile[1] = Entry(0, "open", "term", <<>>)
       /\ AtDepth(_outfile, 2) = << Entry(2, "leaf", "identifier", n_A),
                                    Entry(2, "leaf", "symbol", <<".">>),
                                    Entry(2, "leaf", "identifier", n_f),
                                    Entry(2, "leaf", "symbol", <<"(">>),
                                    Entry(2, "open", "expressionList", <<>>),
                                    Entry(2, "close", "expressionList", <<>>),
                                    Entry(2, "leaf", "symbol", <<")">>) >>
       /\ AtDepth(_outfile, 4) = ExpressionsAndCommas(unit.n, 4)
       /\ _body = <<>>
       /\ LeafLexemes(_outfile) = delivered
       /\ token = <<")">>
       /\ _safe_to_step

\* C7 witness: compile_term returned on a call with two arguments that
\* another token follows.
C7_Witness ==
  /\ unit.family = "qualifiedCall" /\ Returned("compile_term")
  /\ unit.n = 2
  /\ Len(Lexemes(text)) > Len(delivered)
  /\ Len(AtDepth(_outfile, 4)) = 5

-----------------------------------------------------------------------------
(* The classification of a run of digits: token_type() is called on a      *)
(* tokenizer whose current token is the run.                               *)

DigitStrings == UNION { [1..k -> Digits] : k \in 1..MaxDigits }

InitPat ==
  \E d \in DigitStrings :
    /\ unit = Unit("token_type", "digits", << d >>, 0)
    /\ text = d
    /\ fd = NewState(d).fd
    /\ token = d
    /\ _next_token = NewState(d)._next_token
    /\ token_queue = NewState(d).token_queue
    /\ more_tokens = NewState(d).more_tokens
    /\ line_number = NewState(d).line_number
    /\ _indent = NewState(d)._indent
    /\ _body = NewState(d)._body
    /\ _safe_to_step = NewState(d)._safe_to_step
    /\ _outfile = NewState(d)._outfile
    /\ exc = NoExc
    /\ result = 0
    /\ pc = "ready"
    /\ delivered = <<>>
    /\ files = <<>>
    /\ stdout = <<>>
    /\ token_cache = <<>>
    /\ classified = <<>>

Call_token_type ==
  /\ unit.rule = "token_type"
  /\ pc = "ready"
  /\ result' = token_type(token)
  /\ pc' = "done"
  /\ UNCHANGED << text, fd, token, _next_token, token_queue, more_tokens,
                  line_number, _indent, _body, _safe_to_step, _outfile, exc,
                  unit, delivered, files, stdout,
                  token_cache, classified >>

NextPat == Call_token_type

SpecPat == InitPat /\ [][NextPat]_vars

\* C8: a run of digits is classified INT_CONST by token_type() if and only
\* if its decimal value lies in 0..32767.
C8_IntConstRange ==
  (unit.rule = "token_type" /\ pc = "done")
    => ((result = INT_CONST) <=> (int_val(token) \in 0..32767))

\* C8 witness: the run 32767 has been classified INT_CONST.
C8_Witness ==
  /\ unit.rule = "token_type" /\ pc = "done"
  /\ token = <<"3", "2", "7", "6", "7">>
  /\ result = INT_CONST

-----------------------------------------------------------------------------
(* Comments, read off a text from left to right: `//` opens a line comment *)
(* that ends before the next newline or with the text, `/*` opens a block  *)
(* comment that ends with the nearest `*/` after it.                       *)

\* the least position from i on at which w starts in s, 0 when there is none
FindFrom(s, i, w) ==
  LET at == { j \in i..Len(s) : StartsAt(s, j, w) }
  IN  IF at = {} THEN 0 ELSE Min(at)

\* the position after the line comment that opens at i
LineCommentEnd(s, i) ==
  LET nl == FindFrom(s, i, <<"\n">>)
  IN  IF nl = 0 THEN Len(s) + 1 ELSE nl

\* a block comment opens at or after i, outside every comment, and is not
\* closed before the text ends
RECURSIVE OpenerUnclosed(_, _)
OpenerUnclosed(s, i) ==
  IF i > Len(s) THEN FALSE
  ELSE IF StartsAt(s, i, <<"/", "/">>) THEN OpenerUnclosed(s, LineCommentEnd(s, i))
  ELSE IF StartsAt(s, i, <<"/", "*">>)
    THEN IF FindFrom(s, i + 2, <<"*", "/">>) = 0 THEN TRUE
         ELSE OpenerUnclosed(s, FindFrom(s, i + 2, <<"*", "/">>) + 2)
  ELSE OpenerUnclosed(s, i + 1)

\* the characters of s from i on that lie outside every comment
RECURSIVE OutsideComments(_, _)
OutsideComments(s, i) ==
  IF i > Len(s) THEN <<>>
  ELSE IF StartsAt(s, i, <<"/", "/">>) THEN OutsideComments(s, LineCommentEnd(s, i))
  ELSE IF StartsAt(s, i, <<"/", "*">>)
    THEN IF FindFrom(s, i + 2, <<"*", "/">>) = 0 THEN <<>>
         ELSE OutsideComments(s, FindFrom(s, i + 2, <<"*", "/">>) + 2)
  ELSE << s[i] >> \o OutsideComments(s, i + 1)

NonWhitespace(s) == SelectSeq(s, LAMBDA c : c \notin Whitespace)

\* C9: a text in which a block comment is opened and not closed before the
\* input ends is never silently accepted: the tokenizer does not run out of
\* tokens on it (has_more_tokens() false) without any failure having been
\* raised.
C9_UnterminatedNotAccepted ==
  (unit.rule = "advance" /\ OpenerUnclosed(text, 1))
    => ~(~has_more_tokens(Cur) /\ exc.kind = "none")

\* C10: when advance() delivers no more tokens of a text all of whose block
\* comments are closed (has_more_tokens() is false, or the call raised), the
\* tokens it delivered hold, in order, exactly the non-whitespace characters
\* of the text that lie outside the comments.
C10_ExactlyTheComments ==
  (/\ unit.rule = "advance"
   /\ ~OpenerUnclosed(text, 1)
   /\ ~has_more_tokens(Cur) \/ exc.kind # "none")
    => Flatten(delivered) = NonWhitespace(OutsideComments(text, 1))

\* C10 witness: a text with a closed block comment, a line comment and a
\* name outside both, on which the tokenizer has delivered exactly the name.
C10_Witness ==
  /\ unit.rule = "advance"
  /\ ~OpenerUnclosed(text, 1)
  /\ FindFrom(text, 1, <<"/", "*">>) > 0
  /\ FindFrom(text, 1, <<"/", "/">>) > 0
  /\ ~has_more_tokens(Cur)
  /\ delivered = << <<"x">> >>
  /\ Flatten(delivered) = NonWhitespace(OutsideComments(text, 1))

-----------------------------------------------------------------------------
(* The driver: analyze(path) compiles the files of a directory one after   *)
(* the other and compares each output with the .xml file next to it.       *)

MaxFiles == 2      \* files in the directory

src_class == << << w_class, n_A, lx("{"), lx("}") >> >>
src_truncated == << << w_class, n_A, lx("{") >> >>
src_empty == <<>>
src_no_class == << << n_A, lx("{"), lx("}") >> >>
src_let == ClassLines(FALSE, << DropLast(st_let) >>, << lx("}") >>)

DriverSources ==
  { [name |-> "A.jack", lines |-> src_class],
    [name |-> "B.jack", lines |-> src_truncated],
    [name |-> "C.jack", lines |-> src_empty],
    [name |-> "D.jack", lines |-> src_no_class],
    [name |-> "E.jack", lines |-> src_let] }

\* what the .xml file to compare with may hold: nothing, or the output of
\* an empty class A
CompareFiles ==
  { <<>>, call(NewState(TextOf(src_class)), <<"compile_class">>)._outfile }

DriverFiles ==
  { [name |-> f.name, lines |-> f.lines, compare |-> c] :
      f \in DriverSources, c \in CompareFiles }

Directories ==
  { d \in UNION { [1..k -> DriverFiles] : k \in 1..MaxFiles } :
      \A i, j \in 1..Len(d) : i # j => d[i].name # d[j].name }

\* compare_f.readline(): the line at index (from 0), '' after the last
readline(compare_f, index) ==
  IF index + 1 <= Len(compare_f) THEN compare_f[index + 1]
  ELSE [indent |-> 0, kind |-> "eof", tag |-> "", text |-> <<>>]

\* for index, my_line in enumerate(my_f): the report of each line that
\* differs from the line read from compare_f
RECURSIVE compare_lines(_, _, _, _)
compare_lines(name, my_f, compare_f, index) ==
  IF index >= Len(my_f) THEN <<>>
  ELSE (IF my_f[index + 1] # readline(compare_f, index)
          THEN << [ printed |-> "Lines are not equal",
                    in_base_name |-> name,
                    line_number |-> index,
                    ex |-> <<>> ] >>
          ELSE <<>>)
       \o compare_lines(name, my_f, compare_f, index + 1)

\* if compare_f.readline(): print("File is too short!")
too_short(name, my_f, compare_f) ==
  IF Len(compare_f) > Len(my_f)
    THEN << [ printed |-> "File is too short!", in_base_name |-> name,
              line_number |-> 0, ex |-> <<>> ] >>
  ELSE <<>>

\* print("In {} (line {}): {}".format(in_base_name, jt.line_number, ex))
report(name, r) ==
  << [ printed |-> "In {} (line {}): {}", in_base_name |-> name,
       line_number |-> r.line_number, ex |-> r.exc.msg ] >>

InitDriver ==
  \E d \in Directories :
    /\ unit = Unit("analyze", "directory", <<>>, Len(d))
    /\ files = d
    /\ stdout = <<>>
    /\ token_cache = <<>>
    /\ classified = <<>>
    /\ text = <<>>
    /\ fd = NewState(<<>>).fd
    /\ token = NewState(<<>>).token
    /\ _next_token = NewState(<<>>)._next_token
    /\ token_queue = NewState(<<>>).token_queue
    /\ more_tokens = NewState(<<>>).more_tokens
    /\ line_number = NewState(<<>>).line_number
    /\ _indent = NewState(<<>>)._indent
    /\ _body = NewState(<<>>)._body
    /\ _safe_to_step = NewState(<<>>)._safe_to_step
    /\ _outfile = NewState(<<>>)._outfile
    /\ exc = NoExc
    /\ result = 0
    /\ pc = "ready"
    /\ delivered = <<>>

\* One round of the for loop of analyze: the next file is compiled; a
\* CompileError is caught and reported and the output is compared; any
\* other exception leaves analyze.
analyze_file ==
  /\ unit.rule = "analyze"
  /\ pc = "ready"
  /\ files # <<>>
  /\ LET f == Head(files)
         r == call(NewState(TextOf(f.lines)), <<"compile_class">>)
         caught == IsCompileError(r)
         escapes == r.exc.kind # "none" /\ ~caught
     IN  /\ text' = TextOf(f.lines)
         /\ Assign(IF caught THEN Caught(r) ELSE r)
         /\ delivered' = Consumed(TextOf(f.lines), r)
         /\ files' = Tail(files)
         /\ pc' = IF escapes THEN "raised" ELSE "ready"
         /\ stdout' = IF escapes THEN stdout
                      ELSE stdout
                           \o (IF caught THEN report(f.name, r) ELSE <<>>)
                           \o compare_lines(f.name, r._outfile, f.compare, 0)
                           \o too_short(f.name, r._outfile, f.compare)
  /\ UNCHANGED << unit, result, token_cache, classified >>

\* get_files is exhausted: analyze returns
analyze_return ==
  /\ unit.rule = "analyze"
  /\ pc = "ready"
  /\ files = <<>>
  /\ pc' = "done"
  /\ UNCHANGED << text, fd, token, _next_token, token_queue, more_tokens,
                  line_number, _indent, _body, _safe_to_step, _outfile, exc,
                  result, unit, delivered, files, stdout,
                  token_cache, classified >>

NextDriver ==
  \/ analyze_file
  \/ analyze_return

SpecDriver == InitDriver /\ [][NextDriver]_vars

\* C11: whatever failure leaves compile_class on a file, truncated and
\* empty files included, the driver catches it and goes on: no exception
\* leaves analyze, so no file of the directory is left uncompiled.
C11_DriverProceeds ==
  unit.rule = "analyze"
    => /\ exc.kind = "none"
       /\ pc # "raised"

\* C11 witness: the driver has reported the CompileError of one file and
\* gone on to return with every file compiled.
C11_Witness ==
  /\ unit.rule = "analyze"
  /\ pc = "done"
  /\ unit.n = 2
  /\ \E i \in 1..Len(stdout) : stdout[i].printed = "In {} (line {}): {}"

\* the failure kinds the helpers add_keywords, add_symbols and
\* add_identifier raise themselves
HelperFailureKinds == { "CompileKeywordError", "CompileSymbolError", "CompileError" }

\* C12: a class that lacks its `class` keyword, its name, its { or its }
\* leaves compile_class as a failure kind of the class rule, not as the bare
\* keyword, symbol or identifier failure of the helper that detected it.
C12_ClassFailureKind ==
  (unit.rule = "compile_class" /\ unit.family = "classMissing" /\ pc = "done")
    => /\ exc.kind \in CompileErrorKinds
       /\ exc.kind \notin HelperFailureKinds

\* C12 witness: compile_class has raised on a class without a name.
C12_Witness ==
  /\ unit.rule = "compile_class" /\ unit.family = "classMissing"
  /\ pc = "done"
  /\ unit.lines[1][2] = lx("{")
  /\ exc.kind # "none"

\* no <, > or & stands in t from i on, other than as part of one of the
\* three escapes
RECURSIVE NoRawUnsafe(_, _)
NoRawUnsafe(t, i) ==
  IF i > Len(t) THEN TRUE
  ELSE IF StartsAt(t, i, w_amp) THEN NoRawUnsafe(t, i + Len(w_amp))
  ELSE IF StartsAt(t, i, w_lt) THEN NoRawUnsafe(t, i + Len(w_lt))
  ELSE IF StartsAt(t, i, w_gt) THEN NoRawUnsafe(t, i + Len(w_gt))
  ELSE t[i] \notin {"<", ">", "&"} /\ NoRawUnsafe(t, i + 1)

\* C13: every leaf written to the output, whatever the category of its
\* token, has its content escaped: it holds no raw <, > or &.
C13_LeavesEscaped ==
  \A i \in 1..Len(_outfile) :
    _outfile[i].kind = "leaf" => NoRawUnsafe(_outfile[i].text, 1)

\* C13 witness: the symbol < has been written as a leaf, escaped.
C13_Witness ==
  /\ pc = "done"
  /\ \E i \in 1..Len(_outfile) :
       /\ _outfile[i].kind = "leaf"
       /\ _outfile[i].tag = "symbol"
       /\ _outfile[i].text = w_lt

-----------------------------------------------------------------------------
(* The typed accessors: on a tokenizer over a line of lexemes, advance()   *)
(* and the five accessors are called in any order.  (token_cache stays    *)
(* empty here: it stores values that depend on the token alone, so         *)
(* reading it gives what computing the value gives.  The dictionary itself *)
(* is followed under SpecCache.)                                           *)

MaxLexemes == 3    \* lexemes of a line given to the accessors

AccessLexemes == { w_let, lx("<"), n_x, d_1, sc_lt }

AccessLines == UNION { [1..k -> AccessLexemes] : k \in 1..MaxLexemes }

AccessorNames == { "key_word", "symbol", "identifier", "int_val", "string_val" }

\* typed with a plausible bug: the mismatch is reported as a parse failure
typed_compile_error(s, type, name) ==
  IF token_type(s.token) = type THEN s
  ELSE Raise(s, "CompileError", <<"'token_type()' is not ", name, ".">>)

\* if self.token_type() == <type>: ... else: raise TypeError(...)
typed(s, type, name) ==
  IF token_type(s.token) = type THEN s
  ELSE Raise(s, "TypeError", <<"'token_type()' is not ", name, ".">>)

InitAccess ==
  \E q \in AccessLines :
    /\ unit = Unit("accessor", "line", << q >>, Len(q))
    /\ Fresh(TextOf(<< q >>))

Access_advance ==
  /\ unit.rule = "accessor"
  /\ has_more_tokens(Cur)
  /\ Assign(call(Cur, <<"advance">>))
  /\ delivered' = Append(delivered, call(Cur, <<"advance">>).token)
  /\ pc' = "advance"
  /\ result' = 0
  /\ UNCHANGED << text, unit, files, stdout,
                  token_cache, classified >>

\* a call of the accessor `name` that ended in the state r with the value v
Access(name, r, v) ==
  /\ unit.rule = "accessor"
  /\ Assign(r)
  /\ result' = IF OK(r) THEN v ELSE 0
  /\ pc' = name
  /\ UNCHANGED << text, unit, delivered, files, stdout,
                  token_cache, classified >>

Call_key_word ==
  Access("key_word", typed(Cur, KEYWORD, "KEYWORD"),
         IF token_type(token) = KEYWORD THEN key_word(token) ELSE 0)

Call_symbol ==
  Access("symbol", typed(Cur, SYMBOL, "SYMBOL"), symbol(token))

Call_identifier ==
  Access("identifier", typed(Cur, IDENTIFIER, "IDENTIFIER"), identifier(token))

Call_int_val ==
  Access("int_val", typed(Cur, INT_CONST, "INT_CONST"),
         IF token_type(token) = INT_CONST THEN int_val(token) ELSE 0)

Call_string_val ==
  Access("string_val", typed(Cur, STRING_CONST, "STRING_CONST"),
         string_val(token))

NextAccess ==
  \/ Access_advance
  \/ Call_key_word
  \/ Call_symbol
  \/ Call_identifier
  \/ Call_int_val
  \/ Call_string_val

SpecAccess == InitAccess /\ [][NextAccess]_vars

\* the classification an accessor is for
AccessorType(name) ==
  CASE name = "key_word" -> KEYWORD
    [] name = "symbol" -> SYMBOL
    [] name = "identifier" -> IDENTIFIER
    [] name = "int_val" -> INT_CONST
    [] name = "string_val" -> STRING_CONST

C14_Call ==
  (unit.rule = "accessor" /\ pc' \in AccessorNames)
    => /\ token' = token
       /\ _next_token' = _next_token
       /\ more_tokens' = more_tokens
       /\ IF token_type(token) = AccessorType(pc')
            THEN exc'.kind = "none"
            ELSE exc'.kind = "TypeError" /\ exc'.kind \notin CompileErrorKinds

\* C14: a typed accessor called while the current token is classified as
\* another kind raises TypeError, which is no CompileError, and leaves the
\* current token, the lookahead and the exhausted flag as they were; the
\* accessor that matches the classification does not raise.
C14_TypedAccessors == [][C14_Call]_vars

\* C14 witness: with the symbol < current and a lookahead buffered, int_val
\* has raised TypeError.
C14_Witness ==
  /\ unit.rule = "accessor"
  /\ pc = "int_val"
  /\ token = lx("<")
  /\ _next_token # <<>>
  /\ exc.kind = "TypeError"

\* C15: no rule carries on after a sub-rule failed having written output:
\* whenever a rule returns without raising, every region a sub-rule opened
\* in the output has been closed, so no sub-rule that failed after writing
\* its opening tag was taken for an absent construct.
C15_NoPartialSwallow ==
  (pc = "done" /\ exc.kind = "none" /\ unit.rule \notin {"analyze", "accessor", "token_type", "advance"})
    => Balanced(_outfile)

\* C15 witness: compile_return has returned on `return x ;`, its expression
\* compiled and closed.
C15_Witness ==
  /\ Returned("compile_return")
  /\ unit.lines[1] = st_return_x
  /\ Balanced(_outfile)
  /\ \E i \in 1..Len(_outfile) :
       _outfile[i].kind = "close" /\ _outfile[i].tag = "expression"

-----------------------------------------------------------------------------
(* The pending-output queue: the engine's writing operations (a leaf is    *)
(* queued, the queue is written, a tag is opened, a tag is closed) are     *)
(* applied in any order to a fresh engine.                                 *)

MaxOps == 5        \* operations applied to the queue

QueuedLeaves ==
  { <<"keyword", w_let>>, <<"symbol", w_lt>>, <<"integerConstant", 1>> }

OpenedElements == { "expression", "term" }

InitBody ==
  /\ unit = Unit("write", "operations", <<>>, 0)
  /\ Fresh(<<>>)

\* an operation of the engine that ended in the state r
Body(name, r) ==
  /\ unit.rule = "write"
  /\ result < MaxOps
  /\ Assign(r)
  /\ result' = result + 1
  /\ pc' = name
  /\ UNCHANGED << text, unit, files, stdout,
                  token_cache, classified >>

\* self._body += [tag, terminal]
Body_add ==
  \E l \in QueuedLeaves :
    /\ Body("add", add_leaf(Cur, l[1], l[2]))
    /\ delivered' = Append(delivered, << l[1], leaf_text(l) >>)

Body_write_body ==
  /\ Body("write_body", write_body(Cur))
  /\ UNCHANGED delivered

Body_write_non_terminal_start ==
  \E e \in OpenedElements :
    /\ Body("write_non_terminal_start", write_non_terminal_start(Cur, e))
    /\ UNCHANGED delivered

Body_write_non_terminal_end ==
  \E e \in OpenedElements :
    /\ _indent >= 2
    /\ Body("write_non_terminal_end", write_non_terminal_end(Cur, e))
    /\ UNCHANGED delivered

NextBody ==
  \/ Body_add
  \/ Body_write_body
  \/ Body_write_non_terminal_start
  \/ Body_write_non_terminal_end

SpecBody == InitBody /\ [][NextBody]_vars

\* the leaves of the output, as the queue holds them
WrittenLeaves(out) ==
  [ i \in 1..Len(Leaves(out)) |-> << Leaves(out)[i].tag, Leaves(out)[i].text >> ]

QueuedAsWritten(q) == [ i \in 1..Len(q) |-> << q[i][1], leaf_text(q[i]) >> ]

\* C16, state part: the leaves written so far followed by the leaves still
\* queued are the leaves that were queued, in the order they were queued,
\* each once; and nothing is queued when the last entry written is a close
\* tag that the last operation wrote.
C16_InOrder ==
  unit.rule = "write"
    => /\ WrittenLeaves(_outfile) \o QueuedAsWritten(_body) = delivered
       /\ pc = "write_non_terminal_end" => _body = <<>>

\* C16, step part: a write_body call, alone or within the opening or the
\* closing of a tag, leaves nothing queued, and a close tag is written
\* after every leaf that was queued before it.
C16_Drain ==
  (unit.rule = "write" /\ pc' \in {"write_body", "write_non_terminal_start", "write_non_terminal_end"})
    => /\ _body' = <<>>
       /\ WrittenLeaves(_outfile') = delivered
       /\ pc' = "write_non_terminal_end"
            => /\ _outfile'[Len(_outfile')].kind = "close"
               /\ SubSeq(_outfile', 1, Len(_outfile') - 1)
                    = _outfile \o SubSeq(_outfile', Len(_outfile) + 1, Len(_outfile') - 1)
               /\ Len(Leaves(_outfile')) = Len(Leaves(_outfile)) + Len(_body)

\* C16: queued leaves are written in the order they were queued, each once;
\* every write_body empties the queue; every queued leaf is written before
\* the close tag that follows it, so the queue is empty right after a close
\* tag is written.
C16_QueueFlushed == [](C16_InOrder) /\ [][C16_Drain]_vars

\* C16 witness: two leaves were queued and a close tag has been written
\* after both of them.
C16_Witness ==
  /\ unit.rule = "write"
  /\ pc = "write_non_terminal_end"
  /\ Len(delivered) = 2
  /\ _outfile[Len(_outfile)].kind = "close"
  /\ _outfile[Len(_outfile) - 1].kind = "leaf"
  /\ _outfile[Len(_outfile) - 2].kind = "leaf"
  /\ _body = <<>>

IsIdentifierRun(w) ==
  /\ w # <<>>
  /\ \A i \in 1..Len(w) : w[i] \in Upper \cup Lower \cup Digits \cup {"_"}
  /\ w[1] \notin Digits

IsDigitRun(w) == w # <<>> /\ \A i \in 1..Len(w) : w[i] \in Digits

\* C17: when the tokenizer has run out of tokens on a line that holds one
\* word, a word of identifier characters that is no keyword has been
\* delivered as one identifier token, and a run of digits with a value of at
\* most 32767 as one integer-constant token; neither was split.
C17_MaximalLexemes ==
  (unit.rule = "advance" /\ unit.family = "word" /\ ~has_more_tokens(Cur))
    => LET w == unit.lines[1][1]
       IN  /\ (IsIdentifierRun(w) /\ ~KEYWORD_fullmatch(w))
                => delivered = << w >> /\ token_type(token) = IDENTIFIER
           /\ (IsDigitRun(w) /\ int_val(w) <= 32767)
                => delivered = << w >> /\ token_type(token) = INT_CONST

\* C17 witness: a word that holds a keyword inside, not at its start, has
\* been delivered as one identifier.
C17_Witness ==
  /\ unit.rule = "advance" /\ unit.family = "word"
  /\ ~has_more_tokens(Cur)
  /\ unit.lines[1][1] = <<"x">> \o w_do
  /\ delivered = << <<"x">> \o w_do >>
  /\ token_type(token) = IDENTIFIER

\* C18: every token advance() delivered that token_type() classifies as an
\* identifier starts with a letter or an underscore.
C18_IdentifierStart ==
  unit.rule = "advance"
    => \A i \in 1..Len(delivered) :
         token_type(delivered[i]) = IDENTIFIER
           => delivered[i][1] \in Upper \cup Lower \cup {"_"}

\* C18 witness: a word that starts with an underscore has been delivered and
\* is classified as an identifier.
C18_Witness ==
  /\ unit.rule = "advance" /\ unit.family = "word"
  /\ delivered = << <<"_", "x">> >>
  /\ token_type(token) = IDENTIFIER

\* C19: when advance() delivers no more tokens of a line that holds one
\* string constant, the constant has been delivered as one string-constant
\* token and string_val() returns exactly the characters that stand between
\* the two quotes in the text, which hold no quote and no line break.
C19_StringVerbatim ==
  (/\ unit.rule = "advance" /\ unit.family = "string"
   /\ ~has_more_tokens(Cur) \/ exc.kind # "none")
    => /\ Len(delivered) = 1
       /\ token_type(token) = STRING_CONST
       /\ string_val(token) = unit.lines[1][1]
       /\ \A i \in 1..Len(string_val(token)) :
            string_val(token)[i] \notin {"\"", "\n"}

\* C19 witness: the constant "a a" has been delivered and string_val()
\* returns a a, blank included.
C19_Witness ==
  /\ unit.rule = "advance" /\ unit.family = "string"
  /\ ~has_more_tokens(Cur)
  /\ token_type(token) = STRING_CONST
  /\ string_val(token) = <<"a", " ", "a">>
  /\ unit.lines[1][1] = <<"a", " ", "a">>

\* the lexeme t stands in txt at position i
StandsAt(t, txt, i) ==
  /\ i + Len(t) - 1 <= Len(txt)
  /\ \A k \in 1..Len(t) : txt[i + k - 1] = t[k]

\* The line of txt (counted from 1) on which the last of the lexemes
\* toks[j..] stands, the lexemes being looked for from position i of txt, on
\* line `line`, with nothing but white space between them; 0 where the text
\* does not read so (comments, tokens that are not in the text as delivered).
RECURSIVE SourceLine(_, _, _, _, _)
SourceLine(txt, i, toks, j, line) ==
  IF i > Len(txt) THEN 0
  ELSE IF txt[i] = "\n" THEN SourceLine(txt, i + 1, toks, j, line + 1)
  ELSE IF txt[i] \in Whitespace THEN SourceLine(txt, i + 1, toks, j, line)
  ELSE IF ~StandsAt(toks[j], txt, i) THEN 0
  ELSE IF j = Len(toks) THEN line
  ELSE SourceLine(txt, i + Len(toks[j]), toks, j + 1, line)

\* C20: after any sequence of advance() calls that delivered tokens, the
\* line counter line_number equals the line of the source text on which the
\* current token stands.
C20_LineNumberIsSourceLine ==
  (/\ unit.rule = "advance"
   /\ delivered # <<>>
   /\ SourceLine(text, 1, delivered, 1, 1) # 0)
    => line_number = SourceLine(text, 1, delivered, 1, 1)

-----------------------------------------------------------------------------
(* token_cache: on a tokenizer over a line of lexemes, advance(),          *)
(* token_type() and the five accessors are called in any order, and the    *)
(* dictionary token_cache is kept as the code keeps it.                    *)

MaxCacheLexemes == 2   \* lexemes of a line given to the cached calls
MaxClassify == 3       \* runs of the classification patterns on one lexeme

CacheLines == UNION { [1..k -> AccessLexemes] : k \in 1..MaxCacheLexemes }

\* the dictionary and the history of the pattern runs, as one value
CacheNow == [ token_cache |-> token_cache, classified |-> classified ]

\* self.token_cache[t][key] does not raise KeyError
InCache(c, t, key) ==
  /\ t \in DOMAIN c.token_cache
  /\ key \in DOMAIN c.token_cache[t]

\* self.token_cache[t] = {key: v}: the entry of t is replaced by a
\* dictionary with the one key
SetEntry(c, t, key, v) ==
  [c EXCEPT !.token_cache = (t :> (key :> v)) @@ @]

\* the patterns have classified t once more
Classify(c, t) ==
  [c EXCEPT !.classified =
     (t :> (IF t \in DOMAIN @ THEN @[t] + 1 ELSE 1)) @@ @]

\* token_type(): the cached classification if the entry holds one, else
\* the patterns are run and the entry is set to {"token_type": temp_type}.
\* Gives the dictionary after the call and the value returned.
token_type_cached(c, t) ==
  IF InCache(c, t, "token_type")
    THEN [ c |-> c, value |-> c.token_cache[t]["token_type"] ]
    ELSE [ c |-> SetEntry(Classify(c, t), t, "token_type", token_type(t)),
           value |-> token_type(t) ]

\* what the accessor `key` computes from the token t
Decoded(key, t) ==
  CASE key = "key_word" -> key_word(t)
    [] key = "symbol" -> symbol(t)
    [] key = "identifier" -> identifier(t)
    [] key = "int_val" -> int_val(t)
    [] key = "string_val" -> string_val(t)

\* A typed accessor: token_type() is called; if it is the accessor's type,
\* the cached value is returned if the entry holds one, else the value is
\* computed and the entry is set to {key: value}; otherwise TypeError.
accessor_cached(c, t, key, type) ==
  LET a == token_type_cached(c, t)
  IN  IF a.value # type THEN [ c |-> a.c, value |-> 0, raised |-> TRUE ]
      ELSE IF InCache(a.c, t, key)
        THEN [ c |-> a.c, value |-> a.c.token_cache[t][key], raised |-> FALSE ]
        ELSE [ c |-> SetEntry(a.c, t, key, Decoded(key, t)),
               value |-> Decoded(key, t), raised |-> FALSE ]

InitCache ==
  \E q \in CacheLines :
    /\ unit = Unit("cache", "line", << q >>, Len(q))
    /\ Fresh(TextOf(<< q >>))

Cache_advance ==
  /\ unit.rule = "cache"
  /\ has_more_tokens(Cur)
  /\ Assign(call(Cur, <<"advance">>))
  /\ delivered' = Append(delivered, call(Cur, <<"advance">>).token)
  /\ pc' = "advance"
  /\ result' = 0
  /\ UNCHANGED << text, unit, files, stdout, token_cache, classified >>

\* a call that ended with the dictionary r.c and the value r.value
Cached(name, r, raised, msg) ==
  /\ unit.rule = "cache"
  /\ \A t \in DOMAIN r.c.classified : r.c.classified[t] <= MaxClassify
  /\ Assign(IF raised THEN Raise(Cur, "TypeError", msg) ELSE Cur)
  /\ token_cache' = r.c.token_cache
  /\ classified' = r.c.classified
  /\ result' = r.value
  /\ pc' = name
  /\ UNCHANGED << text, unit, delivered, files, stdout >>

Cache_token_type ==
  Cached("token_type", token_type_cached(CacheNow, token), FALSE, <<>>)

CachedAccessor(key, type, name) ==
  LET r == accessor_cached(CacheNow, token, key, type)
  IN  Cached(key, r, r.raised, <<"'token_type()' is not ", name, ".">>)

Cache_key_word == CachedAccessor("key_word", KEYWORD, "KEYWORD")

Cache_symbol == CachedAccessor("symbol", SYMBOL, "SYMBOL")

Cache_identifier == CachedAccessor("identifier", IDENTIFIER, "IDENTIFIER")

Cache_int_val == CachedAccessor("int_val", INT_CONST, "INT_CONST")

Cache_string_val == CachedAccessor("string_val", STRING_CONST, "STRING_CONST")

NextCache ==
  \/ Cache_advance
  \/ Cache_token_type
  \/ Cache_key_word
  \/ Cache_symbol
  \/ Cache_identifier
  \/ Cache_int_val
  \/ Cache_string_val

SpecCache == InitCache /\ [][NextCache]_vars

\* the patterns have classified no lexeme more than once
C21_ClassifiedOnce ==
  unit.rule = "cache" => \A t \in DOMAIN classified : classified[t] <= 1

\* a call takes no key out of an entry of token_cache
C21_EntryKept ==
  unit.rule = "cache" =>
    \A t \in DOMAIN token_cache :
      /\ t \in DOMAIN token_cache'
      /\ DOMAIN token_cache[t] \subseteq DOMAIN token_cache'[t]

\* C21: each lexeme text is classified once per tokenizer: whatever the
\* order of the token_type() and accessor calls, the patterns run at most
\* once on a lexeme, and the entry of a lexeme in token_cache keeps its
\* classification and its decoded value once each has been stored.
C21_ClassifiedOncePerLexeme ==
  [](C21_ClassifiedOnce) /\ [][C21_EntryKept]_vars

\* C22: whenever compile_term has returned without raising, the term
\* region it wrote holds at least one leaf or nested region: in the output
\* of a rule no opening tag of a term is directly followed by its closing
\* tag, so a token that cannot begin a term is never taken for a term.
C22_NoEmptyTerm ==
  pc = "done" =>
    \A i \in 1..(Len(_outfile) - 1) :
      ~ /\ _outfile[i].kind = "open" /\ _outfile[i].tag = "term"
        /\ _outfile[i + 1].kind = "close" /\ _outfile[i + 1].tag = "term"

\* C22 witness: compile_term on the variable x followed by } has returned
\* without raising and its term region holds the identifier.
C22_Witness ==
  /\ unit.rule = "compile_term"
  /\ pc = "done"
  /\ exc.kind = "none"
  /\ Len(_outfile) = 3
  /\ _outfile[1].kind = "open" /\ _outfile[1].tag = "term"
  /\ _outfile[2].kind = "leaf" /\ _outfile[2].tag = "identifier"
  /\ _outfile[3].kind = "close" /\ _outfile[3].tag = "term"

=============================================================================
